---- MODULE Spec2Model ----
(***************************************************************************)
(* Identity resolution, user provisioning and the ticket API of the       *)
(* Macktech portal (backend/server.js, backend/db.js, backend/ad.js).     *)
(*                                                                         *)
(* Every text value is a sequence of atoms (one-character strings, or a   *)
(* whole literal such as "Anonymous" taken as one atom), so that header   *)
(* normalisation works on the characters of the value.  Each await of the *)
(* source is a point where other requests may run; the code between two   *)
(* awaits is one action.                                                   *)
(***************************************************************************)
EXTENDS Integers, Sequences, FiniteSets, TLC

VARIABLES
    users,         \* table users, in insertion order: row i has id i
    tickets,       \* table tickets, in insertion order: row i has id i
    events,        \* table ticket_events, in insertion order
    emitted,       \* what io.emit has broadcast, oldest first
    now,           \* the clock read by datetime('now') and new Date()
    env,           \* process.env as ad.js reads it when the module loads
    pc,            \* per request/connection: the await it is suspended at
    req,           \* per request/connection: what the client sent
    loc,           \* per request/connection: the handler's local variables
    res            \* per request/connection: the response / socket.user

vars == <<users, tickets, events, emitted, now, env, pc, req, loc, res>>

-----------------------------------------------------------------------------
(* Bounds of the model *)

\* concurrent requests and connections of the specification Spec
NumProcs == 2
\* requests served one after the other in SpecSeq and SpecTickets
NumRequests == 2
\* the last value of the clock
MaxClock == 1
\* the longest raw header value of SpecNorm, the examples of the documentation apart
MaxRawLen == 3
\* chat messages that are broadcast
MaxMessages == 2

-----------------------------------------------------------------------------
(* Values *)

\* SQL NULL / JS null of a text column; no text holds the atom "NULL".
NULL == <<"NULL">>
\* A text property that is not there (JS undefined).
undefined == <<"undefined">>
\* db.get() of no row, or an object that was never assigned.
NoRow == [undefined |-> TRUE]

\* JS falsiness of a text value: !v
Falsy(v) == v \in {NULL, undefined, <<>>}

\* obj[k] of a JSON object with text values
Get(obj, k) == IF k \in DOMAIN obj THEN obj[k] ELSE undefined

\* a || b on text values
Or(a, b) == IF Falsy(a) THEN b ELSE a

\* datetime('now'), new Date().toISOString(): a text value
datetime(t) == <<"datetime", t>>

\* Number(req.params.id) of a path segment that is no numeral, such as 'abc':
\* it equals no row id, and SQLite binds it as NULL
NaN == -1

-----------------------------------------------------------------------------
(* String helpers of the SSO-header normalisation *)

includes(s, c) == \E i \in 1..Len(s) : s[i] = c

\* String.prototype.split on a one-character separator: the list of segments
RECURSIVE split(_, _)
split(s, c) ==
    IF ~includes(s, c) THEN <<s>>
    ELSE LET i == CHOOSE k \in 1..Len(s) : s[k] = c /\ \A j \in 1..(k-1) : s[j] # c
         IN  <<SubSeq(s, 1, i-1)>> \o split(SubSeq(s, i+1, Len(s)), c)

\* Array.prototype.pop(): the last element
pop(a) == a[Len(a)]

\* resolveUserFromRequest: let sam = String(v); strip DOMAIN\ prefix or @domain suffix
samOfRequest(v) ==
    LET s1 == IF includes(v, "\\") THEN pop(split(v, "\\")) ELSE v
        s2 == IF includes(s1, "@") THEN split(s1, "@")[1] ELSE s1
    IN  s2

\* Faulty variant: keeps what follows the '@' instead of what precedes it
samOfHandshake_afterAt(v) ==
    LET s1 == IF includes(v, "\\") THEN pop(split(v, "\\")) ELSE v
        s2 == IF includes(s1, "@") THEN pop(split(s1, "@")) ELSE s1
    IN  s2

\* io.use: the same three lines of the handshake
samOfHandshake(v) ==
    LET s1 == IF includes(v, "\\") THEN pop(split(v, "\\")) ELSE v
        s2 == IF includes(s1, "@") THEN split(s1, "@")[1] ELSE s1
    IN  s2

\* The forwarded-identity header names, in the order they are scanned
hdrs == <<"x-remote-user", "remote-user", "x-forwarded-user", "remote_user">>
headerNames == <<"x-remote-user", "remote-user", "x-forwarded-user", "remote_user">>

\* Faulty variant: a header that is there counts, empty or not
scan_emptyCounts(names, headers) ==
    LET present == {i \in 1..Len(names) : names[i] \in DOMAIN headers}
    IN  IF present = {} THEN undefined
        ELSE headers[names[CHOOSE i \in present : \A j \in present : i <= j]]

\* for (const h of names) { const v = headers[h]; if (!v) continue; ... return }
\* the loop body always returns, so only the first non-empty header is used
scan(names, headers) ==
    LET present == {i \in 1..Len(names) : ~Falsy(Get(headers, names[i]))}
    IN  IF present = {} THEN undefined
        ELSE headers[names[CHOOSE i \in present : \A j \in present : i <= j]]

-----------------------------------------------------------------------------
(* Credential verifier *)

NoToken == [sig |-> "none", exp |-> FALSE, id |-> 0]

\* jwt.verify(token, JWT_SECRET) returns the payload unless the token is
\* malformed, signed with another key or expired; then it throws
jwtVerifies(t) == t.sig = "ok" /\ ~t.exp

\* jwt.sign({ id, username }, JWT_SECRET, { expiresIn: JWT_EXPIRES_IN }): a token
\* that verifies until it expires
sign(payload) == [sig |-> "ok", exp |-> FALSE, id |-> payload.id]

-----------------------------------------------------------------------------
(* User store (db.js) *)

\* SELECT * FROM users WHERE username = ?
getUserByUsername(name) ==
    IF \E i \in 1..Len(users) : users[i].username = name
    THEN users[CHOOSE i \in 1..Len(users) : users[i].username = name]
    ELSE NoRow

\* Faulty variant: SELECT * FROM users WHERE id = ?
getUserById_selectAll(id) == IF id \in 1..Len(users) THEN users[id] ELSE NoRow

\* SELECT id, username, display_name, external, created_at FROM users WHERE id = ?
getUserById(id) ==
    IF id \in 1..Len(users)
    THEN [id |-> users[id].id, username |-> users[id].username,
          display_name |-> users[id].display_name,
          external |-> users[id].external, created_at |-> users[id].created_at]
    ELSE NoRow

\* createUser is an arrow function: `arguments` is not its own but that of the
\* CommonJS module wrapper (exports, require, module, ...), so arguments[0] is
\* the module's initial `exports` object, {} -- not the object passed by the caller.
arguments0 == [k \in {} |-> NULL]

\* vals.push(arguments[0].external ? 1 : 0)
externalColumn == IF "external" \in DOMAIN arguments0 /\ arguments0["external"] # 0 THEN 1 ELSE 0

\* The row createUser inserts for the object `a` it is called with
createUserRow(a) ==
    [id |-> Len(users) + 1,
     username |-> a.username,
     password_hash |-> a.password_hash,
     display_name |-> a.display_name,
     external |-> externalColumn,
     created_at |-> datetime(now)]

\* username TEXT NOT NULL UNIQUE: the INSERT is refused (run() rejects)
insertRefused(row) ==
    \/ row.username \in {NULL, undefined}
    \/ \E i \in 1..Len(users) : users[i].username = row.username

-----------------------------------------------------------------------------
(* Directory client (ad.js) *)

\* const AD_URL = process.env.AD_URL; ... (ad.js 6-9)
EnvNames == {"AD_URL", "AD_BIND_DN", "AD_BIND_PW", "AD_BASE_DN"}

\* No directory setting is there; all four are
NoEnv == [n \in EnvNames |-> undefined]
FullEnv == [n \in EnvNames |-> <<n>>]

\* Faulty variant: the service URL alone counts as a configuration
configured_urlOnly == ~Falsy(env.AD_URL)

\* function configured() { return !!(AD_URL && AD_BIND_DN && AD_BIND_PW && AD_BASE_DN) }
configured ==
    ~Falsy(env.AD_URL) /\ ~Falsy(env.AD_BIND_DN) /\ ~Falsy(env.AD_BIND_PW)
        /\ ~Falsy(env.AD_BASE_DN)

\* What the directory holds for an account: its displayName attribute
directoryDisplayName(sam) == <<"D">> \o sam

\* lookupUserBySamAccountName(sam) after configured(): the first entry mapped to
\* {username, displayName, email}, or null on zero matches and on any bind or
\* search failure (the catch returns null)
lookupResult(sam, outcome) ==
    IF outcome = "found"
    THEN [username |-> sam, displayName |-> directoryDisplayName(sam), email |-> NULL]
    ELSE NoRow

DirOutcomes == {"found", "absent", "failed"}

\* const client = ldap.createClient({url: AD_URL}): the connection, and the
\* operations sent over it so far; NoClient when none was created
NoClient == [state |-> "none", sent |-> <<>>]
createClient == [state |-> "open", sent |-> <<>>]

\* client.bind(...), client.search(...)
send(client, op) == [client EXCEPT !.sent = Append(@, op)]

\* client.unbind()
unbind(client) == [state |-> "closed", sent |-> Append(client.sent, "unbind")]

\* An entry of the directory for an account, with the requested attributes
\* (undefined where the entry has none)
entry(sam, displayName, userPrincipalName) ==
    [sAMAccountName |-> sam, displayName |-> displayName, mail |-> undefined,
     userPrincipalName |-> userPrincipalName]

\* What a search that runs to its end may stream for a name: nothing, or
\* entries with or without a displayName
Streams(sam) ==
    {<<>>,
     <<entry(sam, directoryDisplayName(sam), undefined)>>,
     <<entry(sam, undefined, sam \o <<"@", "c">>), entry(sam, undefined, undefined)>>}

\* { username: e.sAMAccountName,
\*   displayName: e.displayName || e.userPrincipalName || e.sAMAccountName,
\*   email: e.mail || e.userPrincipalName || null }
toUser(e) ==
    [username |-> e.sAMAccountName,
     displayName |-> Or(e.displayName, Or(e.userPrincipalName, e.sAMAccountName)),
     email |-> Or(e.mail, Or(e.userPrincipalName, NULL))]

-----------------------------------------------------------------------------
(* Requests and connections *)

NoReq == [ep |-> "none"]
NoRes == [status |-> 0, body |-> NoRow, user |-> NoRow]

\* The locals of a handler before it runs
NoLoc == [sam |-> undefined, dir |-> "none", adInfo |-> NoRow, id |-> 0,
          client |-> NoClient, msg |-> NoRow, message |-> NoRow, user |-> NoRow,
          resolved |-> NoRow, outcome |-> "pending", requser |-> NoRow,
          who |-> undefined, ticket |-> NoRow]

\* Endpoints behind authMiddleware, and the await each handler starts with
AuthEndpoints == {"me", "users", "updateTicket", "getEvents", "postEvent"}

\* The response of an HTTP handler
respond(p, status, body) ==
    /\ res' = [res EXCEPT ![p] = [status |-> status, body |-> body, user |-> NoRow]]
    /\ pc' = [pc EXCEPT ![p] = "done"]

\* Faulty variant: a request without identity goes on to its handler
authMiddleware_open(p, l) ==
    IF l.outcome = "threw"
    THEN /\ respond(p, 401, [error |-> "authentication failed"])
         /\ loc' = [loc EXCEPT ![p] = l]
    ELSE /\ loc' = [loc EXCEPT ![p] = [l EXCEPT !.requser =
                        IF l.resolved = NoRow
                        THEN [id |-> 0, username |-> NULL, display_name |-> NULL]
                        ELSE [id |-> l.resolved.id, username |-> l.resolved.username,
                              display_name |-> l.resolved.display_name]]]
         /\ pc' = [pc EXCEPT ![p] = req[p].ep]
         /\ UNCHANGED res

\* authMiddleware, after resolveUserFromRequest has returned `user` (or thrown)
authMiddleware(p, l) ==
    IF l.outcome = "threw"
    THEN /\ respond(p, 401, [error |-> "authentication failed"])
         /\ loc' = [loc EXCEPT ![p] = l]
    ELSE IF l.resolved = NoRow
    THEN /\ respond(p, 401, [error |-> "missing token or SSO header"])
         /\ loc' = [loc EXCEPT ![p] = l]
    ELSE /\ loc' = [loc EXCEPT ![p] = [l EXCEPT !.requser =
                        [id |-> l.resolved.id, username |-> l.resolved.username,
                         display_name |-> l.resolved.display_name]]]
         /\ pc' = [pc EXCEPT ![p] = req[p].ep]
         /\ UNCHANGED res

\* POST /api/tickets after its optional resolution:
\* who = (resolved && resolved.username) || requester || 'Anonymous'
ticketRequester(p, l) ==
    LET name == IF l.outcome = "returned" /\ l.resolved # NoRow
                THEN l.resolved.username ELSE undefined
    IN  Or(name, Or(Get(req[p].body, "requester"), <<"Anonymous">>))

\* The caller's code that runs when resolveUserFromRequest settles with the
\* locals `l`
continue(p, l) ==
    IF req[p].ep \in AuthEndpoints
    THEN authMiddleware(p, l)
    ELSE /\ loc' = [loc EXCEPT ![p] = [l EXCEPT !.who = ticketRequester(p, l)]]
         /\ pc' = [pc EXCEPT ![p] = "createTicket"]
         /\ UNCHANGED res

\* return user
return(p, l, user) == continue(p, [l EXCEPT !.resolved = user, !.outcome = "returned"])

-----------------------------------------------------------------------------
(* resolveUserFromRequest (server.js 176-227) *)

\* step 2 of the resolver up to its first await: the header scan
resolveHeaders(p, l) ==
    LET v == scan(hdrs, req[p].headers) IN
    IF Falsy(v) THEN return(p, l, NoRow) /\ UNCHANGED users
    ELSE /\ loc' = [loc EXCEPT ![p] = [l EXCEPT !.sam = samOfRequest(v)]]
         /\ pc' = [pc EXCEPT ![p] = IF configured THEN "r_lookup" ELSE "r_getUserByUsername"]
         /\ UNCHANGED <<res, users>>

\* entry: the Authorization header and jwt.verify
resolveUserFromRequest(p) ==
    /\ pc[p] = "resolve"
    /\ IF req[p].token # NoToken /\ jwtVerifies(req[p].token)
       THEN /\ pc' = [pc EXCEPT ![p] = "r_getUserById"]
            /\ UNCHANGED <<loc, res, users>>
       ELSE resolveHeaders(p, loc[p])
    /\ UNCHANGED <<tickets, events, emitted, now, env, req>>

\* Faulty variant: an SSO header, when there is one, overrides the token
resolveGetUserById_headerFirst(p) ==
    /\ pc[p] = "r_getUserById"
    /\ LET user == getUserById(req[p].token.id) IN
       IF user # NoRow /\ Falsy(scan(hdrs, req[p].headers))
       THEN return(p, loc[p], user) /\ UNCHANGED users
       ELSE resolveHeaders(p, loc[p])
    /\ UNCHANGED <<tickets, events, emitted, now, env, req>>

\* const user = await db.getUserById(payload.id); if (user) return user;
resolveGetUserById(p) ==
    /\ pc[p] = "r_getUserById"
    /\ LET user == getUserById(req[p].token.id) IN
       IF user # NoRow THEN return(p, loc[p], user) /\ UNCHANGED users
       ELSE resolveHeaders(p, loc[p])
    /\ UNCHANGED <<tickets, events, emitted, now, env, req>>

\* adInfo = await ad.lookupUserBySamAccountName(sam), inside try/catch
resolveLookup(p) ==
    /\ pc[p] = "r_lookup"
    /\ \E o \in DirOutcomes :
         loc' = [loc EXCEPT ![p].dir = o, ![p].adInfo = lookupResult(loc[p].sam, o)]
    /\ pc' = [pc EXCEPT ![p] = "r_getUserByUsername"]
    /\ UNCHANGED <<users, tickets, events, emitted, now, env, req, res>>

\* let user = await db.getUserByUsername(sam); if (!user) {...createUser...}; return user
resolveGetUserByUsername(p) ==
    /\ pc[p] = "r_getUserByUsername"
    /\ LET user == getUserByUsername(loc[p].sam) IN
       IF user # NoRow THEN return(p, loc[p], user)
       ELSE /\ pc' = [pc EXCEPT ![p] = "r_createUser"]
            /\ UNCHANGED <<loc, res>>
    /\ UNCHANGED <<users, tickets, events, emitted, now, env, req>>

\* const id = await db.createUser({username: sam, password_hash: null, display_name, external: 1})
\* a refused INSERT rejects: catch (e) { ...; return null }
resolveCreateUser(p) ==
    /\ pc[p] = "r_createUser"
    /\ LET l == loc[p]
           display_name == IF l.adInfo # NoRow /\ ~Falsy(l.adInfo.displayName)
                           THEN l.adInfo.displayName ELSE l.sam
           row == createUserRow([username |-> l.sam, password_hash |-> NULL,
                                 display_name |-> display_name, external |-> 1])
       IN  IF insertRefused(row)
           THEN return(p, l, NoRow) /\ UNCHANGED users
           ELSE /\ users' = Append(users, row)
                /\ loc' = [loc EXCEPT ![p].id = row.id]
                /\ pc' = [pc EXCEPT ![p] = "r_reread"]
                /\ UNCHANGED res
    /\ UNCHANGED <<tickets, events, emitted, now, env, req>>

\* user = await db.getUserById(id); return user
resolveReread(p) ==
    /\ pc[p] = "r_reread"
    /\ return(p, loc[p], getUserById(loc[p].id))
    /\ UNCHANGED <<users, tickets, events, emitted, now, env, req>>

-----------------------------------------------------------------------------
(* The realtime handshake, io.use (server.js 90-136) *)

\* if (user) socket.user = {id, username}; return next()
next(p, user) ==
    /\ res' = [res EXCEPT ![p] = [status |-> 0, body |-> NoRow,
                  user |-> IF user # NoRow
                           THEN [id |-> user.id, username |-> user.username]
                           ELSE NoRow]]
    /\ pc' = [pc EXCEPT ![p] = "done"]

\* the header loop of the handshake up to its first await
handshakeHeaders(p) ==
    LET v == scan(headerNames, req[p].headers) IN
    IF Falsy(v) THEN next(p, NoRow) /\ UNCHANGED loc
    ELSE /\ loc' = [loc EXCEPT ![p].sam = samOfHandshake(v)]
         /\ pc' = [pc EXCEPT ![p] = "h_getUserByUsername"]
         /\ UNCHANGED res

\* Faulty variant: a token that does not verify ends the handshake at once
handshake_badTokenEnds(p) ==
    /\ pc[p] = "handshake"
    /\ IF req[p].token = NoToken THEN handshakeHeaders(p)
       ELSE IF jwtVerifies(req[p].token)
            THEN /\ pc' = [pc EXCEPT ![p] = "h_getUserById"]
                 /\ UNCHANGED <<loc, res>>
            ELSE next(p, NoRow) /\ UNCHANGED loc
    /\ UNCHANGED <<users, tickets, events, emitted, now, env, req>>

\* entry: socket.handshake.auth.token and jwt.verify
handshake(p) ==
    /\ pc[p] = "handshake"
    /\ IF req[p].token # NoToken /\ jwtVerifies(req[p].token)
       THEN /\ pc' = [pc EXCEPT ![p] = "h_getUserById"]
            /\ UNCHANGED <<loc, res>>
       ELSE handshakeHeaders(p)
    /\ UNCHANGED <<users, tickets, events, emitted, now, env, req>>

\* const user = await db.getUserById(payload.id);
\* if (user) socket.user = ...; return next();     (also when there is no user)
handshakeGetUserById(p) ==
    /\ pc[p] = "h_getUserById"
    /\ next(p, getUserById(req[p].token.id))
    /\ UNCHANGED <<users, tickets, events, emitted, now, env, req, loc>>

\* let user = await db.getUserByUsername(sam); if (!user && ad && ad.configured()) {...}
handshakeGetUserByUsername(p) ==
    /\ pc[p] = "h_getUserByUsername"
    /\ LET user == getUserByUsername(loc[p].sam) IN
       IF user = NoRow /\ configured
       THEN /\ pc' = [pc EXCEPT ![p] = "h_lookup"]
            /\ UNCHANGED res
       ELSE next(p, user)
    /\ UNCHANGED <<users, tickets, events, emitted, now, env, req, loc>>

\* const adInfo = await ad.lookupUserBySamAccountName(sam)
handshakeLookup(p) ==
    /\ pc[p] = "h_lookup"
    /\ \E o \in DirOutcomes :
         loc' = [loc EXCEPT ![p].dir = o, ![p].adInfo = lookupResult(loc[p].sam, o)]
    /\ pc' = [pc EXCEPT ![p] = "h_createUser"]
    /\ UNCHANGED <<users, tickets, events, emitted, now, env, req, res>>

\* const id = await db.createUser({...}); a refused INSERT: catch (e) { return next() }
handshakeCreateUser(p) ==
    /\ pc[p] = "h_createUser"
    /\ LET l == loc[p]
           display_name == IF l.adInfo # NoRow /\ ~Falsy(l.adInfo.displayName)
                           THEN l.adInfo.displayName ELSE l.sam
           row == createUserRow([username |-> l.sam, password_hash |-> NULL,
                                 display_name |-> display_name, external |-> 1])
       IN  IF insertRefused(row)
           THEN next(p, NoRow) /\ UNCHANGED <<users, loc>>
           ELSE /\ users' = Append(users, row)
                /\ loc' = [loc EXCEPT ![p].id = row.id]
                /\ pc' = [pc EXCEPT ![p] = "h_reread"]
                /\ UNCHANGED res
    /\ UNCHANGED <<tickets, events, emitted, now, env, req>>

\* user = await db.getUserById(id); if (user) socket.user = ...; return next()
handshakeReread(p) ==
    /\ pc[p] = "h_reread"
    /\ next(p, getUserById(loc[p].id))
    /\ UNCHANGED <<users, tickets, events, emitted, now, env, req, loc>>

-----------------------------------------------------------------------------
(* lookupUserBySamAccountName and searchUsers, step by step (ad.js 15-110) *)

\* The awaiting caller goes on with the value the directory function resolved
\* with: the resolver and the handshake with adInfo, GET /api/ad/users with
\* res.json(users), a direct call with the value itself
adReturn(p, client, outcome, value) ==
    LET l == [loc[p] EXCEPT !.client = client, !.dir = outcome] IN
    IF req[p].ep \in {"lookup", "searchUsers"}
    THEN /\ respond(p, 0, value)
         /\ loc' = [loc EXCEPT ![p] = l]
    ELSE IF req[p].ep = "adUsers"
    THEN /\ respond(p, 200, value)
         /\ loc' = [loc EXCEPT ![p] = l]
    ELSE /\ loc' = [loc EXCEPT ![p] = [l EXCEPT !.adInfo = value]]
         /\ pc' = [pc EXCEPT ![p] = IF req[p].ep = "handshake" THEN "h_createUser"
                                    ELSE "r_getUserByUsername"]
         /\ UNCHANGED res

\* p runs searchUsers (else lookupUserBySamAccountName)
searching(p) == req[p].ep \in {"adUsers", "searchUsers"}

\* A JSON array as searchUsers returns it and res.json sends it
array(list) == [array |-> list]

\* The value of no match and of a failure: [] for searchUsers, null for the lookup
nothing(p) == IF searching(p) THEN array(<<>>) ELSE NoRow

\* if (!configured()) return null;   (searchUsers: return [])
\* const client = ldap.createClient({ url: AD_URL });  try { await bind(); ...
adCall(p) ==
    /\ pc[p] \in {"r_lookup", "h_lookup", "lookup", "searchUsers"}
    /\ IF ~configured THEN adReturn(p, loc[p].client, "unconfigured", nothing(p))
       ELSE /\ loc' = [loc EXCEPT ![p].client = send(createClient, "bind")]
            /\ pc' = [pc EXCEPT ![p] = "ad_bind"]
            /\ UNCHANGED res
    /\ UNCHANGED <<users, tickets, events, emitted, now, env, req>>

\* Faulty variant: the catch only logs and returns; the connection stays open
catch_leavesOpen(p) == adReturn(p, loc[p].client, "failed", nothing(p))

\* Faulty variant: the failure is thrown on to the caller after the unbind
catch_rethrows(p) ==
    /\ loc' = [loc EXCEPT ![p].client = unbind(@), ![p].dir = "failed"]
    /\ IF req[p].ep = "adUsers"
       THEN respond(p, 500, [error |-> "failed to search ad users"])
       ELSE IF req[p].ep = "handshake" THEN next(p, NoRow)
       ELSE IF req[p].ep \in {"lookup", "searchUsers"} THEN respond(p, 0, [error |-> "thrown"])
       ELSE /\ pc' = [pc EXCEPT ![p] = "r_getUserByUsername"]
            /\ UNCHANGED res

\* catch (err) { try { client.unbind(); } catch (e) {} console.error(...); return null; }
catch(p) == adReturn(p, unbind(loc[p].client), "failed", nothing(p))

\* The directory answers the bind: with an error the promise of bind() rejects,
\* else search() is started
bindReplies(p) ==
    /\ pc[p] = "ad_bind"
    /\ \E err \in BOOLEAN :
         IF err THEN catch(p)
         ELSE /\ loc' = [loc EXCEPT ![p].client = send(@, "search")]
              /\ pc' = [pc EXCEPT ![p] = "ad_search"]
              /\ UNCHANGED res
    /\ UNCHANGED <<users, tickets, events, emitted, now, env, req>>

\* const entries = await search(); client.unbind();
\* if (!entries || entries.length === 0) return null;  const e = entries[0]; return {...}
\* (searchUsers: return []; return entries.map(...))
end(p, entries) ==
    IF entries = <<>> THEN adReturn(p, unbind(loc[p].client), "absent", nothing(p))
    ELSE adReturn(p, unbind(loc[p].client), "found",
                  IF searching(p) THEN array([k \in 1..Len(entries) |-> toUser(entries[k])])
                  ELSE toUser(entries[1]))

\* The directory answers the search: the callback gets an error, the result
\* emits 'error' while streaming, or it streams entries and ends
searchReplies(p) ==
    /\ pc[p] = "ad_search"
    /\ \/ \E failure \in {"err", "error event"} : catch(p)
       \/ \E entries \in Streams(loc[p].sam) : end(p, entries)
    /\ UNCHANGED <<users, tickets, events, emitted, now, env, req>>

\* GET /api/ad/users (server.js 401-412):
\* if (!ad || !ad.configured || !ad.configured()) return res.status(404).json([]);
\* const q = String(req.query.q || '').trim(); const users = await ad.searchUsers(q, 50);
adUsers(p) ==
    /\ pc[p] = "adUsers"
    /\ IF ~configured THEN respond(p, 404, array(<<>>))
       ELSE /\ pc' = [pc EXCEPT ![p] = "searchUsers"]
            /\ UNCHANGED res
    /\ UNCHANGED <<users, tickets, events, emitted, now, env, req, loc>>

-----------------------------------------------------------------------------
(* Realtime chat, io.on('connection') (server.js 138-152) *)

\* The connected sockets: io.emit reaches each of them
sockets == {q \in DOMAIN pc : pc[q] = "connected"}

\* io.emit(event, payload)
emit(event, payload) ==
    emitted' = Append(emitted, [event |-> event, payload |-> payload, to |-> sockets])

\* next() was called: the connection is made, with socket.user as the handshake
\* left it, and the 'chat message' listener is registered
connection(p) ==
    /\ pc[p] = "done"
    /\ req[p].ep = "handshake"
    /\ pc' = [pc EXCEPT ![p] = "connected"]
    /\ UNCHANGED <<users, tickets, events, emitted, now, env, req, loc, res>>

\* const message = { id: Date.now(), text: msg.text || '',
\*   user: (socket.user && socket.user.username) || (msg.user || 'Anonymous'),
\*   ts: new Date().toISOString() };
message(p, msg) ==
    [id |-> now,
     text |-> Or(Get(msg, "text"), <<>>),
     user |-> Or(IF res[p].user # NoRow THEN res[p].user.username ELSE undefined,
                 Or(Get(msg, "user"), <<"Anonymous">>)),
     ts |-> datetime(now)]

\* Faulty variant: each chat message resolves the sender's header name again
chatMessage_reresolves(p, M) ==
    /\ pc[p] = "connected"
    /\ Len(emitted) < MaxMessages
    /\ LET user == getUserByUsername(samOfHandshake(scan(headerNames, req[p].headers))) IN
         res' = [res EXCEPT ![p].user = IF user = NoRow THEN res[p].user
                                        ELSE [id |-> user.id, username |-> user.username]]
    /\ \E msg \in M :
         /\ emit("chat message", message(p, msg))
         /\ loc' = [loc EXCEPT ![p].msg = msg, ![p].message = message(p, msg)]
    /\ UNCHANGED <<users, tickets, events, now, env, pc, req>>

\* socket.on('chat message', (msg) => { ...; io.emit('chat message', message); })
chatMessage(p, M) ==
    /\ pc[p] = "connected"
    /\ Len(emitted) < MaxMessages
    /\ \E msg \in M :
         /\ emit("chat message", message(p, msg))
         /\ loc' = [loc EXCEPT ![p].msg = msg, ![p].message = message(p, msg)]
    /\ UNCHANGED <<users, tickets, events, now, env, pc, req, res>>

\* The client goes away
disconnect(p) ==
    /\ pc[p] = "connected"
    /\ pc' = [pc EXCEPT ![p] = "closed"]
    /\ req' = [req EXCEPT ![p] = NoReq]
    /\ loc' = [loc EXCEPT ![p] = NoLoc]
    /\ res' = [res EXCEPT ![p] = NoRes]
    /\ UNCHANGED <<users, tickets, events, emitted, now, env>>

-----------------------------------------------------------------------------
(* POST /api/register (server.js 243-257) *)

\* bcrypt.hash(password, 10)
bcryptHash(password) == <<"bcrypt">> \o password

\* if (!username || !password) return 400; existing = await db.getUserByUsername(username)
register(p) ==
    /\ pc[p] = "register"
    /\ IF Falsy(Get(req[p].body, "username")) \/ Falsy(Get(req[p].body, "password"))
       THEN respond(p, 400, [error |-> "username and password required"])
       ELSE pc' = [pc EXCEPT ![p] = "reg_getUserByUsername"] /\ UNCHANGED res
    /\ UNCHANGED <<users, tickets, events, emitted, now, env, req, loc>>

\* if (existing) return 409; hash = await bcrypt.hash(...)
registerGetUserByUsername(p) ==
    /\ pc[p] = "reg_getUserByUsername"
    /\ IF getUserByUsername(req[p].body.username) # NoRow
       THEN respond(p, 409, [error |-> "username taken"])
       ELSE pc' = [pc EXCEPT ![p] = "reg_createUser"] /\ UNCHANGED res
    /\ UNCHANGED <<users, tickets, events, emitted, now, env, req, loc>>

\* const id = await db.createUser({username, password_hash: hash, display_name})
\* a refused INSERT: catch (err) { res.status(500) }
registerCreateUser(p) ==
    /\ pc[p] = "reg_createUser"
    /\ LET row == createUserRow([username |-> req[p].body.username,
                                 password_hash |-> bcryptHash(req[p].body.password),
                                 display_name |-> IF "display_name" \in DOMAIN req[p].body
                                                  THEN req[p].body.display_name ELSE NULL])
       IN  IF insertRefused(row)
           THEN respond(p, 500, [error |-> "registration failed"]) /\ UNCHANGED <<users, loc>>
           ELSE /\ users' = Append(users, row)
                /\ loc' = [loc EXCEPT ![p].id = row.id]
                /\ pc' = [pc EXCEPT ![p] = "reg_reread"]
                /\ UNCHANGED res
    /\ UNCHANGED <<tickets, events, emitted, now, env, req>>

\* const user = await db.getUserById(id); res.status(201).json(user)
registerReread(p) ==
    /\ pc[p] = "reg_reread"
    /\ respond(p, 201, getUserById(loc[p].id))
    /\ UNCHANGED <<users, tickets, events, emitted, now, env, req, loc>>

-----------------------------------------------------------------------------
(* POST /api/login (server.js 260-274) *)

\* const { username, password } = req.body;
\* if (!username || !password) return res.status(400)...
login(p) ==
    /\ pc[p] = "login"
    /\ IF Falsy(Get(req[p].body, "username")) \/ Falsy(Get(req[p].body, "password"))
       THEN respond(p, 400, [error |-> "username and password required"])
       ELSE pc' = [pc EXCEPT ![p] = "login_getUserByUsername"] /\ UNCHANGED res
    /\ UNCHANGED <<users, tickets, events, emitted, now, env, req, loc>>

\* const user = await db.getUserByUsername(username);
\* if (!user) return res.status(401).json({ error: 'invalid credentials' });
loginGetUserByUsername(p) ==
    /\ pc[p] = "login_getUserByUsername"
    /\ LET user == getUserByUsername(req[p].body.username) IN
       IF user = NoRow
       THEN respond(p, 401, [error |-> "invalid credentials"]) /\ UNCHANGED loc
       ELSE /\ loc' = [loc EXCEPT ![p].user = user]
            /\ pc' = [pc EXCEPT ![p] = "login_compare"]
            /\ UNCHANGED res
    /\ UNCHANGED <<users, tickets, events, emitted, now, env, req>>

\* const ok = await bcrypt.compare(password, user.password_hash): bcryptjs
\* rejects when the hash is not a string (null for a provisioned user), and the
\* catch answers 500
\* if (!ok) return res.status(401)...; const token = jwt.sign({ id, username }, ...);
\* res.json({ token, user: { id, username, display_name } })
loginCompare(p) ==
    /\ pc[p] = "login_compare"
    /\ LET user == loc[p].user IN
       IF user.password_hash = NULL
       THEN respond(p, 500, [error |-> "login failed"])
       ELSE IF bcryptHash(req[p].body.password) # user.password_hash
       THEN respond(p, 401, [error |-> "invalid credentials"])
       ELSE respond(p, 200, [token |-> sign([id |-> user.id, username |-> user.username]),
                             user |-> [id |-> user.id, username |-> user.username,
                                       display_name |-> user.display_name]])
    /\ UNCHANGED <<users, tickets, events, emitted, now, env, req, loc>>

-----------------------------------------------------------------------------
(* GET /api/me (server.js 277-284) *)

\* const user = await db.getUserById(req.user.id); res.json(user)
me(p) ==
    /\ pc[p] = "me"
    /\ respond(p, 200, getUserById(loc[p].requser.id))
    /\ UNCHANGED <<users, tickets, events, emitted, now, env, req, loc>>

-----------------------------------------------------------------------------
(* Ticket store (db.js) *)

\* createTicket is an arrow function too: arguments[0] is the module's
\* `exports`, so computer, location, category, ... are read from {} 
createTicketRow(a) ==
    [id |-> Len(tickets) + 1,
     title |-> a.title,
     description |-> a.description,
     requester |-> a.requester,
     computer |-> Or(Get(arguments0, "computer"), NULL),
     location |-> Or(Get(arguments0, "location"), NULL),
     category |-> Or(Get(arguments0, "category"), NULL),
     hold_reason |-> Or(Get(arguments0, "hold_reason"), NULL),
     due_date |-> Or(Get(arguments0, "due_date"), NULL),
     assigned_to |-> Or(Get(arguments0, "assigned_to"), NULL),
     assigned_at |-> Or(Get(arguments0, "assigned_at"), NULL),
     status |-> <<"open">>,
     created_at |-> datetime(now),
     updated_at |-> NULL]

\* SELECT * FROM tickets WHERE id = ?
getTicket(id) == IF id \in 1..Len(tickets) THEN tickets[id] ELSE NoRow

\* the columns updateTicket accepts
whitelist == <<"title", "description", "requester", "status", "category",
               "hold_reason", "due_date", "assigned_to", "assigned_at">>

\* up: the whitelisted keys with fields[k] !== undefined
up(fields) == {i \in 1..Len(whitelist) : whitelist[i] \in DOMAIN fields}

\* Faulty variant: every key of the payload that is a column is written
updatedRow_anyColumn(row, fields) ==
    [k \in DOMAIN row |->
        IF k = "updated_at" THEN datetime(now)
        ELSE IF k \in DOMAIN fields THEN fields[k]
        ELSE row[k]]

\* UPDATE tickets SET <up>, updated_at = datetime('now') WHERE id = ?
updatedRow(row, fields) ==
    [k \in DOMAIN row |->
        IF k = "updated_at" THEN datetime(now)
        ELSE IF k \in DOMAIN fields /\ \E i \in up(fields) : whitelist[i] = k THEN fields[k]
        ELSE row[k]]

\* title TEXT NOT NULL: the UPDATE of an existing row is refused
updateRefused(id, fields) ==
    id \in 1..Len(tickets) /\ "title" \in DOMAIN fields /\ fields["title"] = NULL

\* the table after updateTicket(id, fields)
updateTicket(id, fields) ==
    IF up(fields) = {} \/ id \notin 1..Len(tickets) THEN tickets
    ELSE [tickets EXCEPT ![id] = updatedRow(tickets[id], fields)]

\* The row createTicketEvent inserts
createTicketEventRow(a) ==
    [id |-> Len(events) + 1,
     ticket_id |-> a.ticket_id,
     type |-> a.type,
     actor |-> a.actor,
     message |-> IF a.message = undefined THEN NULL ELSE a.message,
     created_at |-> datetime(now)]

\* ticket_id INTEGER NOT NULL, type TEXT NOT NULL: the INSERT is refused
\* (run() rejects)
eventRefused(a) == a.ticket_id = NaN \/ a.type \in {NULL, undefined}

\* SELECT * FROM ticket_events WHERE ticket_id = ? ORDER BY created_at DESC:
\* every order of the ticket's events that is non-increasing in created_at
\* (SQL leaves the order of rows with equal created_at open)
getTicketEvents(ticket_id) ==
    LET ids == {i \in 1..Len(events) : events[i].ticket_id = ticket_id}
        n == Cardinality(ids)
    IN  {[k \in 1..n |-> events[f[k]]] :
            f \in {g \in [1..n -> ids] :
                     /\ \A a, b \in 1..n : a # b => g[a] # g[b]
                     /\ \A a, b \in 1..n :
                          a < b => events[g[a]].created_at[2] >= events[g[b]].created_at[2]}}

\* SELECT id, username, display_name FROM users ORDER BY username
\* (the rows; the order of the list is not modelled)
allUsers ==
    {[id |-> users[i].id, username |-> users[i].username,
      display_name |-> users[i].display_name] : i \in 1..Len(users)}

\* JSON.stringify(fields): a text made of the keys and their values
keyOrder == whitelist \o <<"internal_flag", "computer">>
RECURSIVE stringifyFrom(_, _)
stringifyFrom(fields, i) ==
    IF i > Len(keyOrder) THEN <<"}">>
    ELSE (IF keyOrder[i] \in DOMAIN fields
          THEN <<keyOrder[i], ":">> \o fields[keyOrder[i]] \o <<",">>
          ELSE <<>>) \o stringifyFrom(fields, i + 1)
stringify(fields) == <<"{">> \o stringifyFrom(fields, 1)

-----------------------------------------------------------------------------
(* POST /api/tickets (server.js 288-313) *)

\* hdr['x-computer-name'] || hdr['x-client-host'] || hdr['x-forwarded-for-host'] || hdr['x-device'] || null
computerHeader(h) ==
    Or(Get(h, "x-computer-name"), Or(Get(h, "x-client-host"),
       Or(Get(h, "x-forwarded-for-host"), Or(Get(h, "x-device"), NULL))))

\* hdr['x-location'] || hdr['x-site'] || hdr['x-building'] || null
locationHeader(h) ==
    Or(Get(h, "x-location"), Or(Get(h, "x-site"), Or(Get(h, "x-building"), NULL)))

\* Faulty variant: only a missing title is refused, an empty one goes on
postTickets_missingOnly(p) ==
    /\ pc[p] = "postTickets"
    /\ IF "title" \notin DOMAIN req[p].body
       THEN respond(p, 400, [error |-> "title required"])
       ELSE pc' = [pc EXCEPT ![p] = "resolve"] /\ UNCHANGED res
    /\ UNCHANGED <<users, tickets, events, emitted, now, env, req, loc>>

\* if (!title) return 400; resolved = await resolveUserFromRequest(req)
postTickets(p) ==
    /\ pc[p] = "postTickets"
    /\ IF Falsy(Get(req[p].body, "title"))
       THEN respond(p, 400, [error |-> "title required"])
       ELSE pc' = [pc EXCEPT ![p] = "resolve"] /\ UNCHANGED res
    /\ UNCHANGED <<users, tickets, events, emitted, now, env, req, loc>>

\* const id = await db.createTicket({title, description: description || '', requester: who, computer, location})
createTicket(p) ==
    /\ pc[p] = "createTicket"
    /\ LET row == createTicketRow([title |-> req[p].body.title,
                                   description |-> Or(Get(req[p].body, "description"), <<>>),
                                   requester |-> loc[p].who,
                                   computer |-> computerHeader(req[p].headers),
                                   location |-> locationHeader(req[p].headers)])
       IN  /\ tickets' = Append(tickets, row)
           /\ loc' = [loc EXCEPT ![p].id = row.id]
    /\ pc' = [pc EXCEPT ![p] = "ct_getTicket"]
    /\ UNCHANGED <<users, events, emitted, now, env, req, res>>

\* const ticket = await db.getTicket(id)
createTicketGet(p) ==
    /\ pc[p] = "ct_getTicket"
    /\ loc' = [loc EXCEPT ![p].ticket = getTicket(loc[p].id)]
    /\ pc' = [pc EXCEPT ![p] = "ct_createTicketEvent"]
    /\ UNCHANGED <<users, tickets, events, emitted, now, env, req, res>>

\* await db.createTicketEvent({ticket_id: id, type: 'created', actor: who, ...});
\* io.emit('ticket.created', ticket); res.status(201).json(ticket)
createTicketEvent(p) ==
    /\ pc[p] = "ct_createTicketEvent"
    /\ events' = Append(events, createTicketEventRow(
                     [ticket_id |-> loc[p].id, type |-> <<"created">>,
                      actor |-> loc[p].who, message |-> <<"Ticket created">>]))
    /\ emit("ticket.created", loc[p].ticket)
    /\ respond(p, 201, loc[p].ticket)
    /\ UNCHANGED <<users, tickets, now, env, req, loc>>

-----------------------------------------------------------------------------
(* PUT /api/tickets/:id (server.js 315-333) *)

\* Faulty variant: a payload without a whitelisted field is an error
putTicket_nothingToUpdate(p) ==
    /\ pc[p] = "updateTicket"
    /\ IF updateRefused(req[p].id, req[p].body) \/ up(req[p].body) = {}
       THEN respond(p, 500, [error |-> "failed to update ticket"]) /\ UNCHANGED tickets
       ELSE /\ tickets' = updateTicket(req[p].id, req[p].body)
            /\ pc' = [pc EXCEPT ![p] = "ut_getTicket"]
            /\ UNCHANGED res
    /\ UNCHANGED <<users, events, emitted, now, env, req, loc>>

\* await db.updateTicket(id, fields); a refused UPDATE: catch (err) { res.status(500) }
putTicket(p) ==
    /\ pc[p] = "updateTicket"
    /\ IF updateRefused(req[p].id, req[p].body)
       THEN respond(p, 500, [error |-> "failed to update ticket"]) /\ UNCHANGED tickets
       ELSE /\ tickets' = updateTicket(req[p].id, req[p].body)
            /\ pc' = [pc EXCEPT ![p] = "ut_getTicket"]
            /\ UNCHANGED res
    /\ UNCHANGED <<users, events, emitted, now, env, req, loc>>

\* const ticket = await db.getTicket(id)
putTicketGet(p) ==
    /\ pc[p] = "ut_getTicket"
    /\ loc' = [loc EXCEPT ![p].ticket = getTicket(req[p].id)]
    /\ pc' = [pc EXCEPT ![p] = "ut_createTicketEvent"]
    /\ UNCHANGED <<users, tickets, events, emitted, now, env, req, res>>

\* Faulty variant: the update is notified and answered but not logged
putTicketEvent_noEvent(p) ==
    /\ pc[p] = "ut_createTicketEvent"
    /\ emit("ticket.updated", loc[p].ticket)
    /\ respond(p, 200, loc[p].ticket)
    /\ UNCHANGED <<users, tickets, events, now, env, req, loc>>

\* try { await db.createTicketEvent({ticket_id: id, type: 'updated', actor,
\*   message: JSON.stringify(fields)}); } catch (e) {}     (a refused INSERT is dropped)
\* io.emit('ticket.updated', ticket); res.json(ticket)
putTicketEvent(p) ==
    /\ pc[p] = "ut_createTicketEvent"
    /\ LET a == [ticket_id |-> req[p].id, type |-> <<"updated">>,
                 actor |-> loc[p].requser.username, message |-> stringify(req[p].body)]
       IN  events' = IF eventRefused(a) THEN events
                     ELSE Append(events, createTicketEventRow(a))
    /\ emit("ticket.updated", loc[p].ticket)
    /\ respond(p, 200, loc[p].ticket)
    /\ UNCHANGED <<users, tickets, now, env, req, loc>>

-----------------------------------------------------------------------------
(* GET and POST /api/tickets/:id/events, GET /api/users (server.js 347-397) *)

\* const events = await db.getTicketEvents(id); res.json(events)
getEvents(p) ==
    /\ pc[p] = "getEvents"
    /\ \E list \in getTicketEvents(req[p].id) : respond(p, 200, list)
    /\ UNCHANGED <<users, tickets, events, emitted, now, env, req, loc>>

\* Faulty variant: an actor named in the body is taken for the caller
postEvent_actorFromBody(p) ==
    /\ pc[p] = "postEvent"
    /\ LET row == createTicketEventRow(
                     [ticket_id |-> req[p].id, type |-> Or(Get(req[p].body, "type"), <<"note">>),
                      actor |-> Or(Get(req[p].body, "actor"), loc[p].requser.username),
                      message |-> Get(req[p].body, "message")])
       IN  /\ events' = Append(events, row)
           /\ respond(p, 201, [id |-> row.id])
    /\ UNCHANGED <<users, tickets, emitted, now, env, req, loc>>

\* Faulty variant: the note takes the place of the newest event (INSERT OR REPLACE)
postEvent_replacesLast(p) ==
    /\ pc[p] = "postEvent"
    /\ LET row == createTicketEventRow(
                     [ticket_id |-> req[p].id, type |-> Or(Get(req[p].body, "type"), <<"note">>),
                      actor |-> loc[p].requser.username, message |-> Get(req[p].body, "message")])
       IN  /\ events' = IF events = <<>> THEN <<row>>
                        ELSE [events EXCEPT ![Len(events)] = [row EXCEPT !.id = Len(events)]]
           /\ respond(p, 201, [id |-> row.id])
    /\ UNCHANGED <<users, tickets, emitted, now, env, req, loc>>

\* const evId = await db.createTicketEvent({ticket_id: id, type: type || 'note', actor, message});
\* res.status(201).json({id: evId});  a refused INSERT: catch (err) { res.status(500) }
postEvent(p) ==
    /\ pc[p] = "postEvent"
    /\ LET row == createTicketEventRow(
                     [ticket_id |-> req[p].id, type |-> Or(Get(req[p].body, "type"), <<"note">>),
                      actor |-> loc[p].requser.username, message |-> Get(req[p].body, "message")])
       IN  IF eventRefused(row)
           THEN respond(p, 500, [error |-> "failed to post event"]) /\ UNCHANGED events
           ELSE /\ events' = Append(events, row)
                /\ respond(p, 201, [id |-> row.id])
    /\ UNCHANGED <<users, tickets, emitted, now, env, req, loc>>

\* GET /api/tickets/:id (server.js 335-344): no authMiddleware
\* const ticket = await db.getTicket(id); if (!ticket) return 404; res.json(ticket)
getTicketRoute(p) ==
    /\ pc[p] = "getTicket"
    /\ LET ticket == getTicket(req[p].id) IN
       IF ticket = NoRow THEN respond(p, 404, [error |-> "not found"])
       ELSE respond(p, 200, ticket)
    /\ UNCHANGED <<users, tickets, events, emitted, now, env, req, loc>>

\* const users = await db.allUsers(); res.json(users)
getUsers(p) ==
    /\ pc[p] = "users"
    /\ respond(p, 200, allUsers)
    /\ UNCHANGED <<users, tickets, events, emitted, now, env, req, loc>>

\* Time passes
tick ==
    /\ now < MaxClock
    /\ now' = now + 1
    /\ UNCHANGED <<users, tickets, events, emitted, env, pc, req, loc, res>>

-----------------------------------------------------------------------------
(* What clients send *)

validToken(id) == [sig |-> "ok", exp |-> FALSE, id |-> id]
expiredToken(id) == [sig |-> "ok", exp |-> TRUE, id |-> id]
forgedToken(id) == [sig |-> "bad", exp |-> FALSE, id |-> id]
malformedToken == [sig |-> "malformed", exp |-> FALSE, id |-> 0]

NoHeaders == [h \in {} |-> undefined]
remoteUser(v) == [h \in {"x-remote-user"} |-> v]
NoBody == [k \in {} |-> undefined]

\* a token and the forwarded headers of one request
credentials(T, H) == {[token |-> t, headers |-> h] : t \in T, h \in H}

\* The user that create_admin.js puts in the store
adminRow == [id |-> 1, username |-> <<"admin">>, password_hash |-> bcryptHash(<<"pw">>),
             display_name |-> <<"admin">>, external |-> 0, created_at |-> datetime(0)]

\* Requests are taken in the order of the process numbers (the processes are
\* interchangeable)
free(p) == pc[p] = "idle" /\ \A q \in DOMAIN pc : q < p => pc[q] # "idle"

\* No other request is being served, and nothing is left of the served ones
quiet(p) ==
    \A q \in DOMAIN pc \ {p} : pc[q] = "idle" \/ (pc[q] = "done" /\ req[q] = NoReq)

\* The handler has returned: req, res and the handler's locals are dropped
\* (what a handshake leaves on the socket is read when the handshake ends)
release(p) ==
    /\ pc[p] = "done"
    /\ req[p] # NoReq
    /\ req' = [req EXCEPT ![p] = NoReq]
    /\ loc' = [loc EXCEPT ![p] = NoLoc]
    /\ res' = [res EXCEPT ![p] = NoRes]
    /\ UNCHANGED <<users, tickets, events, emitted, now, env, pc>>

\* A client opens a realtime connection
connect(p, C) ==
    /\ free(p)
    /\ \E c \in C :
         req' = [req EXCEPT ![p] = [ep |-> "handshake", token |-> c.token,
                                    headers |-> c.headers]]
    /\ pc' = [pc EXCEPT ![p] = "handshake"]
    /\ UNCHANGED <<users, tickets, events, emitted, now, env, loc, res>>

\* A client sends POST /api/register
postRegister(p, B) ==
    /\ free(p)
    /\ \E b \in B :
         req' = [req EXCEPT ![p] = [ep |-> "register", token |-> NoToken,
                                    headers |-> NoHeaders, body |-> b]]
    /\ pc' = [pc EXCEPT ![p] = "register"]
    /\ UNCHANGED <<users, tickets, events, emitted, now, env, loc, res>>

\* A client sends POST /api/login
postLogin(p, B) ==
    /\ free(p)
    /\ \E b \in B :
         req' = [req EXCEPT ![p] = [ep |-> "login", token |-> NoToken,
                                    headers |-> NoHeaders, body |-> b]]
    /\ pc' = [pc EXCEPT ![p] = "login"]
    /\ UNCHANGED <<users, tickets, events, emitted, now, env, loc, res>>

\* A client sends a request to an endpoint behind authMiddleware
authRequest(p, E, C) ==
    /\ free(p)
    /\ \E e \in E, c \in C :
         req' = [req EXCEPT ![p] = [ep |-> e.ep, token |-> c.token, headers |-> c.headers,
                                    id |-> e.id, body |-> e.body]]
    /\ pc' = [pc EXCEPT ![p] = "resolve"]
    /\ UNCHANGED <<users, tickets, events, emitted, now, env, loc, res>>

\* A client sends POST /api/tickets
postTicketsRequest(p, B, C) ==
    /\ free(p)
    /\ \E b \in B, c \in C :
         req' = [req EXCEPT ![p] = [ep |-> "createTicket", token |-> c.token,
                                    headers |-> c.headers, body |-> b]]
    /\ pc' = [pc EXCEPT ![p] = "postTickets"]
    /\ UNCHANGED <<users, tickets, events, emitted, now, env, loc, res>>

\* A client sends GET /api/tickets/:id
getTicketRequest(p, I) ==
    /\ free(p)
    /\ \E i \in I :
         req' = [req EXCEPT ![p] = [ep |-> "getTicket", token |-> NoToken,
                                    headers |-> NoHeaders, id |-> i, body |-> NoBody]]
    /\ pc' = [pc EXCEPT ![p] = "getTicket"]
    /\ UNCHANGED <<users, tickets, events, emitted, now, env, loc, res>>

\* Code of the server calls ad.lookupUserBySamAccountName(name) or
\* ad.searchUsers(name), or a client sends GET /api/ad/users?q=name
adRequest(p, F, S) ==
    /\ free(p)
    /\ \E f \in F, s \in S :
         /\ req' = [req EXCEPT ![p] = [ep |-> f, token |-> NoToken, headers |-> NoHeaders]]
         /\ loc' = [loc EXCEPT ![p].sam = s]
         /\ pc' = [pc EXCEPT ![p] = f]
    /\ UNCHANGED <<users, tickets, events, emitted, now, env, res>>

GetMe == [ep |-> "me", id |-> 0, body |-> NoBody]
GetUsers == [ep |-> "users", id |-> 0, body |-> NoBody]

-----------------------------------------------------------------------------
(* Spec: concurrent handshakes, requests to GET /api/me and registrations  *)

\* "j" and "CORP\j@corp" name the same account
RaceCredentials ==
    credentials({NoToken, validToken(1), expiredToken(1)},
                {NoHeaders, remoteUser(<<"j">>), remoteUser(<<"C", "\\", "j", "@", "c">>)})

RaceBodies ==
    {[username |-> <<"j">>, password |-> <<"pw">>],
     [username |-> <<"admin">>, password |-> <<"pw">>],
     [username |-> <<"j">>]}

start(P) ==
    /\ tickets = <<>>
    /\ events = <<>>
    /\ emitted = <<>>
    /\ now = 0
    /\ pc = [p \in P |-> "idle"]
    /\ req = [p \in P |-> NoReq]
    /\ loc = [p \in P |-> NoLoc]
    /\ res = [p \in P |-> NoRes]

Init ==
    /\ users \in {<<>>, <<adminRow>>}
    /\ env \in {NoEnv, FullEnv}
    /\ start(1..NumProcs)

Next ==
    \E p \in 1..NumProcs :
        \/ connect(p, RaceCredentials)
        \/ postRegister(p, RaceBodies)
        \/ authRequest(p, {GetMe}, RaceCredentials)
        \/ resolveUserFromRequest(p)
        \/ resolveGetUserById(p)
        \/ resolveLookup(p)
        \/ resolveGetUserByUsername(p)
        \/ resolveCreateUser(p)
        \/ resolveReread(p)
        \/ handshake(p)
        \/ handshakeGetUserById(p)
        \/ handshakeGetUserByUsername(p)
        \/ handshakeLookup(p)
        \/ handshakeCreateUser(p)
        \/ handshakeReread(p)
        \/ register(p)
        \/ registerGetUserByUsername(p)
        \/ registerCreateUser(p)
        \/ registerReread(p)
        \/ me(p)

Spec == Init /\ [][Next]_vars

-----------------------------------------------------------------------------
(* SpecSeq: the same endpoints, one request after the other, with every    *)
(* kind of token and header value                                           *)

SeqCredentials ==
    credentials({NoToken, validToken(1), expiredToken(1), forgedToken(1), malformedToken},
                {NoHeaders, remoteUser(<<"j">>), remoteUser(<<"C", "\\", "j">>),
                 remoteUser(<<"j", "@", "c">>), remoteUser(<<"k">>)})

SeqBodies == RaceBodies \cup {[username |-> <<"k">>, password |-> <<"pw">>, display_name |-> <<"K">>]}

SeqInit ==
    /\ users \in {<<>>, <<adminRow>>}
    /\ env \in {NoEnv, FullEnv}
    /\ start(1..NumRequests)

SeqNext ==
    \E p \in 1..NumRequests :
        \/ quiet(p) /\ connect(p, SeqCredentials)
        \/ quiet(p) /\ postRegister(p, SeqBodies)
        \/ quiet(p) /\ authRequest(p, {GetMe}, SeqCredentials)
        \/ resolveUserFromRequest(p)
        \/ resolveGetUserById(p)
        \/ resolveLookup(p)
        \/ resolveGetUserByUsername(p)
        \/ resolveCreateUser(p)
        \/ resolveReread(p)
        \/ handshake(p)
        \/ handshakeGetUserById(p)
        \/ handshakeGetUserByUsername(p)
        \/ handshakeLookup(p)
        \/ handshakeCreateUser(p)
        \/ handshakeReread(p)
        \/ register(p)
        \/ registerGetUserByUsername(p)
        \/ registerCreateUser(p)
        \/ registerReread(p)
        \/ me(p)
        \/ release(p)

SpecSeq == SeqInit /\ [][SeqNext]_vars

-----------------------------------------------------------------------------
(* SpecTickets: the ticket API, one request after the other *)

TicketCredentials ==
    {[token |-> NoToken, headers |-> NoHeaders],
     [token |-> validToken(1), headers |-> NoHeaders],
     [token |-> expiredToken(1), headers |-> NoHeaders],
     [token |-> NoToken, headers |-> remoteUser(<<"C", "\\", "j">>)],
     [token |-> NoToken, headers |-> remoteUser(<<"C", "\\">>)]}

CreateBodies ==
    {[title |-> <<"Printer down">>],
     [title |-> <<"Printer down">>, requester |-> <<"bob">>],
     [title |-> <<"Printer down">>, status |-> <<"closed">>, description |-> <<"jam">>],
     [title |-> <<>>, requester |-> <<"bob">>],
     NoBody}

TicketIds == {1, 2}

UpdateBodies ==
    {[status |-> <<"closed">>],
     [title |-> <<"Toner">>, status |-> <<"on-hold">>, internal_flag |-> <<"true">>,
      computer |-> <<"pc9">>],
     [internal_flag |-> <<"true">>],
     NoBody}

EventBodies ==
    {[message |-> <<"called back">>],
     [type |-> <<"created">>, message |-> <<"forged">>, actor |-> <<"root">>],
     NoBody}

TicketEndpoints ==
    {GetMe, GetUsers}
    \cup {[ep |-> "updateTicket", id |-> i, body |-> b] : i \in TicketIds, b \in UpdateBodies}
    \cup {[ep |-> "getEvents", id |-> i, body |-> NoBody] : i \in TicketIds}
    \cup {[ep |-> "postEvent", id |-> i, body |-> b] : i \in TicketIds, b \in EventBodies}

\* A ticket created earlier by an anonymous client, with its audit event
oldTicket ==
    [id |-> 1, title |-> <<"Old">>, description |-> <<>>, requester |-> <<"Anonymous">>,
     computer |-> NULL, location |-> NULL, category |-> NULL, hold_reason |-> NULL,
     due_date |-> NULL, assigned_to |-> NULL, assigned_at |-> NULL, status |-> <<"open">>,
     created_at |-> datetime(0), updated_at |-> NULL]
oldEvent == [id |-> 1, ticket_id |-> 1, type |-> <<"created">>, actor |-> <<"Anonymous">>,
             message |-> <<"Ticket created">>, created_at |-> datetime(0)]

TicketInit ==
    /\ users = <<adminRow>>
    /\ env \in {NoEnv, FullEnv}
    /\ emitted = <<>>
    /\ now = 0
    /\ \/ tickets = <<>> /\ events = <<>>
       \/ tickets = <<oldTicket>> /\ events = <<oldEvent>>
    /\ pc = [p \in 1..NumRequests |-> "idle"]
    /\ req = [p \in 1..NumRequests |-> NoReq]
    /\ loc = [p \in 1..NumRequests |-> NoLoc]
    /\ res = [p \in 1..NumRequests |-> NoRes]

TicketNext ==
    \/ tick
    \/ \E p \in 1..NumRequests :
        \/ quiet(p) /\ postTicketsRequest(p, CreateBodies, TicketCredentials)
        \/ quiet(p) /\ authRequest(p, TicketEndpoints, TicketCredentials)
        \/ quiet(p) /\ getTicketRequest(p, TicketIds)
        \/ resolveUserFromRequest(p)
        \/ resolveGetUserById(p)
        \/ resolveLookup(p)
        \/ resolveGetUserByUsername(p)
        \/ resolveCreateUser(p)
        \/ resolveReread(p)
        \/ postTickets(p)
        \/ createTicket(p)
        \/ createTicketGet(p)
        \/ createTicketEvent(p)
        \/ putTicket(p)
        \/ putTicketGet(p)
        \/ putTicketEvent(p)
        \/ getEvents(p)
        \/ postEvent(p)
        \/ getTicketRoute(p)
        \/ getUsers(p)
        \/ me(p)
        \/ release(p)

SpecTickets == TicketInit /\ [][TicketNext]_vars

-----------------------------------------------------------------------------
(* SpecNorm: a proxy forwards one raw header value on the concurrent       *)
(* requests and connections of a client; the value is any string over      *)
(* RawAlphabet up to MaxRawLen characters, or one of three longer examples *)

RawAlphabet == {"C", "\\", "j", "@"}

CORP_jdoe == <<"C", "O", "R", "P", "\\", "j", "d", "o", "e">>
jdoe_at_corp == <<"j", "d", "o", "e", "@", "c", "o", "r", "p", ".", "e", "x", "a", "m", "p", "l", "e">>
jdoe == <<"j", "d", "o", "e">>

RawValues ==
    UNION {[1..n -> RawAlphabet] : n \in 0..MaxRawLen} \cup {CORP_jdoe, jdoe_at_corp, jdoe}

NormCredentials == credentials({NoToken}, {remoteUser(v) : v \in RawValues})

\* the request p now starts carries the header of the requests before it
sameProxy(p) == \A q \in DOMAIN pc \ {p} : pc[q] # "idle" => req'[p].headers = req[q].headers

NormInit ==
    /\ users = <<>>
    /\ env = NoEnv
    /\ start(1..NumProcs)

NormNext ==
    \E p \in 1..NumProcs :
        \/ connect(p, NormCredentials) /\ sameProxy(p)
        \/ authRequest(p, {GetMe}, NormCredentials) /\ sameProxy(p)
        \/ resolveUserFromRequest(p)
        \/ resolveGetUserByUsername(p)
        \/ resolveCreateUser(p)
        \/ resolveReread(p)
        \/ handshake(p)
        \/ handshakeGetUserByUsername(p)
        \/ me(p)

SpecNorm == NormInit /\ [][NormNext]_vars

-----------------------------------------------------------------------------
(* SpecDirectory: the directory client under every environment, called     *)
(* directly, by the resolver of GET /api/me, by the handshake and by       *)
(* GET /api/ad/users, one call after the other                              *)

\* Each setting is missing, empty or there
DirEnvs ==
    {e \in [EnvNames -> {undefined, <<>>} \cup {<<n>> : n \in EnvNames}] :
        \A n \in EnvNames : e[n] \in {undefined, <<>>, <<n>>}}

DirCredentials == {[token |-> NoToken, headers |-> remoteUser(<<"j">>)]}
DirNames == {<<"j">>}

DirInit ==
    /\ users = <<adminRow>>
    /\ env \in DirEnvs
    /\ start(1..NumRequests)

\* The steps of the server's own code
DirProgram ==
    \E p \in 1..NumRequests :
        \/ quiet(p) /\ adRequest(p, {"lookup", "searchUsers", "adUsers"}, DirNames)
        \/ quiet(p) /\ authRequest(p, {GetMe}, DirCredentials)
        \/ quiet(p) /\ connect(p, DirCredentials)
        \/ resolveUserFromRequest(p)
        \/ resolveGetUserByUsername(p)
        \/ resolveCreateUser(p)
        \/ resolveReread(p)
        \/ me(p)
        \/ handshake(p)
        \/ handshakeGetUserByUsername(p)
        \/ handshakeCreateUser(p)
        \/ handshakeReread(p)
        \/ adCall(p)
        \/ adUsers(p)
        \/ release(p)

\* The answers of the directory server
DirReplies ==
    \E p \in 1..NumRequests :
        \/ bindReplies(p)
        \/ searchReplies(p)

DirNext == DirProgram \/ DirReplies

SpecDirectory == DirInit /\ [][DirNext]_vars

\* The server's own code always takes its next step; nothing makes the
\* directory server answer
SpecDirectoryFair == DirInit /\ [][DirNext]_vars /\ WF_vars(DirProgram)

-----------------------------------------------------------------------------
(* SpecChat: realtime connections that stay open and send chat messages    *)
(* while requests to GET /api/me are served                                 *)

ChatCredentials ==
    {[token |-> NoToken, headers |-> NoHeaders],
     [token |-> validToken(1), headers |-> NoHeaders],
     [token |-> NoToken, headers |-> remoteUser(<<"j">>)],
     [token |-> NoToken, headers |-> remoteUser(<<"C", "\\">>)]}

\* what a client sends with 'chat message': a text, with or without a name
ChatMessages ==
    {[text |-> <<"hi">>],
     [text |-> <<"hi">>, user |-> <<"admin">>],
     [user |-> <<"root">>]}

\* No other handshake or request is under way
calm(p) ==
    \A q \in DOMAIN pc \ {p} :
        pc[q] \in {"idle", "connected", "closed"} \/ (pc[q] = "done" /\ req[q] = NoReq)

ChatInit ==
    /\ users = <<adminRow>>
    /\ env \in {NoEnv, FullEnv}
    /\ start(1..NumProcs)

ChatNext ==
    \/ tick
    \/ \E p \in 1..NumProcs :
        \/ calm(p) /\ connect(p, ChatCredentials)
        \/ calm(p) /\ authRequest(p, {GetMe}, ChatCredentials)
        \/ resolveUserFromRequest(p)
        \/ resolveGetUserById(p)
        \/ resolveLookup(p)
        \/ resolveGetUserByUsername(p)
        \/ resolveCreateUser(p)
        \/ resolveReread(p)
        \/ me(p)
        \/ req[p].ep = "me" /\ release(p)
        \/ handshake(p)
        \/ handshakeGetUserById(p)
        \/ handshakeGetUserByUsername(p)
        \/ handshakeLookup(p)
        \/ handshakeCreateUser(p)
        \/ handshakeReread(p)
        \/ connection(p)
        \/ chatMessage(p, ChatMessages)
        \/ disconnect(p)

SpecChat == ChatInit /\ [][ChatNext]_vars

-----------------------------------------------------------------------------
(* SpecPortal: every core endpoint, one request after the other, beside    *)
(* realtime connections that stay open                                      *)

PortalCredentials ==
    {[token |-> validToken(1), headers |-> NoHeaders],
     [token |-> NoToken, headers |-> remoteUser(<<"j">>)]}

PortalAccounts ==
    {[username |-> <<"j">>, password |-> <<"pw">>],
     [username |-> <<"admin">>, password |-> <<"pw">>],
     [username |-> <<"admin">>, password |-> <<"guess">>]}

PortalEndpoints ==
    {GetMe, GetUsers,
     [ep |-> "updateTicket", id |-> 1, body |-> [status |-> <<"closed">>]],
     [ep |-> "getEvents", id |-> 1, body |-> NoBody],
     [ep |-> "postEvent", id |-> 1, body |-> [message |-> <<"called back">>]]}

PortalInit ==
    /\ users = <<adminRow>>
    /\ env \in {NoEnv, FullEnv}
    /\ start(1..NumRequests)

PortalNext ==
    \E p \in 1..NumRequests :
        \/ calm(p) /\ postRegister(p, PortalAccounts)
        \/ calm(p) /\ postLogin(p, PortalAccounts)
        \/ calm(p) /\ authRequest(p, PortalEndpoints, PortalCredentials)
        \/ calm(p) /\ postTicketsRequest(p, {[title |-> <<"Printer down">>]}, PortalCredentials)
        \/ calm(p) /\ getTicketRequest(p, {1})
        \/ calm(p) /\ connect(p, PortalCredentials)
        \/ register(p)
        \/ registerGetUserByUsername(p)
        \/ registerCreateUser(p)
        \/ registerReread(p)
        \/ login(p)
        \/ loginGetUserByUsername(p)
        \/ loginCompare(p)
        \/ resolveUserFromRequest(p)
        \/ resolveGetUserById(p)
        \/ resolveLookup(p)
        \/ resolveGetUserByUsername(p)
        \/ resolveCreateUser(p)
        \/ resolveReread(p)
        \/ me(p)
        \/ getUsers(p)
        \/ postTickets(p)
        \/ createTicket(p)
        \/ createTicketGet(p)
        \/ createTicketEvent(p)
        \/ putTicket(p)
        \/ putTicketGet(p)
        \/ putTicketEvent(p)
        \/ getEvents(p)
        \/ postEvent(p)
        \/ getTicketRoute(p)
        \/ req[p].ep # "handshake" /\ release(p)
        \/ handshake(p)
        \/ handshakeGetUserById(p)
        \/ handshakeGetUserByUsername(p)
        \/ handshakeLookup(p)
        \/ handshakeCreateUser(p)
        \/ handshakeReread(p)
        \/ connection(p)
        \/ chatMessage(p, ChatMessages)
        \/ disconnect(p)

SpecPortal == PortalInit /\ [][PortalNext]_vars

-----------------------------------------------------------------------------
(* SpecHeaders: concurrent requests and handshakes that carry up to two of *)
(* the four forwarded-identity headers, with the directory configured       *)

\* What a proxy may put in each header: a name of its own, and for the first
\* also the empty string
HeaderValues ==
    [h \in {"x-remote-user", "remote-user", "x-forwarded-user", "remote_user"} |->
        CASE h = "x-remote-user" -> {<<>>, <<"a">>}
          [] h = "remote-user" -> {<<"b">>}
          [] h = "x-forwarded-user" -> {<<"c">>}
          [] h = "remote_user" -> {<<"d">>}]

\* No header, one, or any two of the four, each with one of its values
HeaderSets ==
    UNION {{h \in [D -> {<<>>, <<"a">>, <<"b">>, <<"c">>, <<"d">>}] :
               \A n \in D : h[n] \in HeaderValues[n]} :
           D \in {E \in SUBSET DOMAIN HeaderValues : Cardinality(E) <= 2}}

HeaderCredentials == credentials({NoToken}, HeaderSets)

HeaderInit ==
    /\ users = <<>>
    /\ env = FullEnv
    /\ start(1..NumProcs)

HeaderNext ==
    \E p \in 1..NumProcs :
        \/ connect(p, HeaderCredentials)
        \/ authRequest(p, {GetMe}, HeaderCredentials)
        \/ resolveUserFromRequest(p)
        \/ resolveLookup(p)
        \/ resolveGetUserByUsername(p)
        \/ resolveCreateUser(p)
        \/ resolveReread(p)
        \/ me(p)
        \/ handshake(p)
        \/ handshakeGetUserByUsername(p)
        \/ handshakeLookup(p)
        \/ handshakeCreateUser(p)
        \/ handshakeReread(p)

SpecHeaders == HeaderInit /\ [][HeaderNext]_vars

-----------------------------------------------------------------------------
(* SpecNotify: concurrent creations and updates of tickets by the admin,    *)
(* from a plain client or through an agent that forwards the device and the *)
(* site; the updates are addressed to ticket 1 or to a path that is no      *)
(* number                                                                    *)

\* The headers of the agent: no x-computer-name, so x-client-host is the
\* first computer header; x-site before x-building
agentHeaders ==
    [h \in {"x-client-host", "x-device", "x-site", "x-building"} |->
        CASE h = "x-client-host" -> <<"pc9">>
          [] h = "x-device" -> <<"laptop">>
          [] h = "x-site" -> <<"hq">>
          [] h = "x-building" -> <<"B2">>]

NotifyCredentials == credentials({validToken(1)}, {NoHeaders, agentHeaders})

NotifyIds == {1, NaN}

NotifyBodies == {[status |-> <<"closed">>], [title |-> <<"Toner">>]}

NotifyEndpoints ==
    {[ep |-> "updateTicket", id |-> i, body |-> b] : i \in NotifyIds, b \in NotifyBodies}

NotifyInit ==
    /\ users = <<adminRow>>
    /\ env = NoEnv
    /\ emitted = <<>>
    /\ now = 0
    /\ tickets = <<oldTicket>>
    /\ events = <<oldEvent>>
    /\ pc = [p \in 1..NumProcs |-> "idle"]
    /\ req = [p \in 1..NumProcs |-> NoReq]
    /\ loc = [p \in 1..NumProcs |-> NoLoc]
    /\ res = [p \in 1..NumProcs |-> NoRes]

NotifyNext ==
    \E p \in 1..NumProcs :
        \/ postTicketsRequest(p, {[title |-> <<"Printer down">>]}, NotifyCredentials)
        \/ authRequest(p, NotifyEndpoints, NotifyCredentials)
        \/ resolveUserFromRequest(p)
        \/ resolveGetUserById(p)
        \/ postTickets(p)
        \/ createTicket(p)
        \/ createTicketGet(p)
        \/ createTicketEvent(p)
        \/ putTicket(p)
        \/ putTicketGet(p)
        \/ putTicketEvent(p)

SpecNotify == NotifyInit /\ [][NotifyNext]_vars

-----------------------------------------------------------------------------
(* Notions used by the properties *)

\* The identity a finished resolution ended with: the user returned by
\* resolveUserFromRequest, or socket.user of a handshake
identity(p) == IF req[p].ep = "handshake" THEN res[p].user ELSE loc[p].resolved

\* The request or handshake runs an identity resolution
resolves(p) == req[p].ep \in AuthEndpoints \cup {"handshake", "createTicket"}

\* The resolution of p is over
resolved(p) ==
    IF req[p].ep = "handshake" THEN pc[p] = "done" ELSE loc[p].outcome # "pending"

\* The forwarded-identity value the request carries, and its account name
headerValue(p) == scan(hdrs, req[p].headers)
account(p) == samOfRequest(headerValue(p))

\* The bearer-token strategy cannot succeed: the SSO-header strategy decides
ssoOnly(p) == ~jwtVerifies(req[p].token)

\* The rows of an account name
rowsOf(name) == {i \in 1..Len(users) : users[i].username = name}

\* Requests start in the order of their numbers: p is the one started last
latest(p) == \A q \in DOMAIN pc : q > p => pc[q] = "idle"

-----------------------------------------------------------------------------
(* C1: any two resolutions (requests or handshakes) that present the same  *)
(* SSO account name, with no bearer token that verifies, leave exactly one  *)
(* user row of that name once both are over; and no state holds two rows of *)
(* one account name.                                                        *)
C1_ExactlyOneRow ==
    /\ \A i, j \in 1..Len(users) : users[i].username = users[j].username => i = j
    /\ \A p, q \in DOMAIN pc :
         ( /\ p # q
           /\ resolves(p) /\ resolves(q)
           /\ resolved(p) /\ resolved(q)
           /\ ssoOnly(p) /\ ssoOnly(q)
           /\ ~Falsy(headerValue(p)) /\ ~Falsy(headerValue(q))
           /\ account(p) = account(q) )
         => Cardinality(rowsOf(account(p))) = 1

\* The part of C1 that the code keeps: at most one row per account name
C1_AtMostOneRow ==
    \A i, j \in 1..Len(users) : users[i].username = users[j].username => i = j

-----------------------------------------------------------------------------
(* C2: a resolution whose INSERT is refused because the account name has   *)
(* just been taken ends with the user of that name as its identity.        *)
C2_LoserReadsRow ==
    [][\A p \in DOMAIN pc :
         ( /\ pc[p] \in {"r_createUser", "h_createUser"}
           /\ pc'[p] # pc[p]
           /\ getUserByUsername(loc[p].sam) # NoRow )
         => /\ resolved(p)'
            /\ identity(p)' # NoRow
            /\ identity(p)'.id = getUserByUsername(loc[p].sam).id]_vars

-----------------------------------------------------------------------------
(* C3: a request whose bearer token verifies and whose subject id is in the *)
(* User Store is resolved to getUserById(subject id), whatever SSO headers  *)
(* it carries.                                                              *)
C3_TokenResolvesSubject ==
    \A p \in DOMAIN pc :
        ( /\ latest(p)
          /\ req[p].ep \in AuthEndpoints
          /\ resolved(p)
          /\ jwtVerifies(req[p].token)
          /\ getUserById(req[p].token.id) # NoRow )
        => /\ loc[p].outcome = "returned"
           /\ loc[p].resolved = getUserById(req[p].token.id)

\* A request with a valid token of admin and a header naming another account
\* is served as admin
C3_Witness ==
    \E p \in DOMAIN pc :
        /\ latest(p) /\ pc[p] = "done" /\ req[p].ep = "me"
        /\ jwtVerifies(req[p].token)
        /\ ~Falsy(headerValue(p))
        /\ loc[p].resolved = getUserById(req[p].token.id)
        /\ loc[p].resolved # NoRow
        /\ loc[p].resolved.username # account(p)
        /\ res[p].status = 200

-----------------------------------------------------------------------------
(* C4: with a bearer token that does not verify (expired, forged,          *)
(* malformed) a resolution never throws to its caller; without an SSO      *)
(* header it ends with no identity, with one it ends with what the         *)
(* SSO-header strategy gives: the user of the header's account name.       *)
C4_BadTokenFallsThrough ==
    \A p \in DOMAIN pc :
        ( /\ latest(p)
          /\ req[p].ep \in AuthEndpoints \cup {"handshake"}
          /\ resolved(p)
          /\ req[p].token # NoToken
          /\ ~jwtVerifies(req[p].token) )
        => /\ loc[p].outcome # "threw"
           /\ IF Falsy(headerValue(p)) THEN identity(p) = NoRow
              ELSE /\ loc[p].sam = account(p)
                   /\ IF getUserByUsername(account(p)) = NoRow THEN identity(p) = NoRow
                      ELSE /\ identity(p) # NoRow
                           /\ identity(p).id = getUserByUsername(account(p)).id

\* A handshake with a malformed token and an SSO header with a domain prefix
\* has ended with the header's account, which it provisioned
C4_Witness ==
    \E p \in DOMAIN pc :
        /\ latest(p) /\ pc[p] = "done"
        /\ req[p].ep = "handshake"
        /\ req[p].token = malformedToken
        /\ headerValue(p) = <<"C", "\\", "j">>
        /\ res[p].user # NoRow /\ res[p].user.username = <<"j">>
        /\ res[p].user.id = loc[p].id

-----------------------------------------------------------------------------
(* C5: when the bearer token verifies but its subject id has no row, a     *)
(* request and a handshake that carry an SSO header are resolved to the    *)
(* header's account.                                                       *)
C5_UnknownSubjectFallsThrough ==
    \A p \in DOMAIN pc :
        ( /\ latest(p)
          /\ req[p].ep \in AuthEndpoints \cup {"handshake"}
          /\ resolved(p)
          /\ jwtVerifies(req[p].token)
          /\ \/ req[p].token.id \notin 1..Len(users)
             \/ loc[p].id = req[p].token.id       \* the row p itself then provisioned
          /\ ~Falsy(headerValue(p)) )
        => /\ identity(p) # NoRow
           /\ identity(p).username = account(p)

-----------------------------------------------------------------------------
(* C6: an SSO header whose account name is not in the User Store makes the *)
(* resolution provision the user and end with it, whether the directory is *)
(* unconfigured, has no entry, or fails; in requests and handshakes alike. *)
C6_ProvisionsInEveryDirectoryCondition ==
    \A p \in DOMAIN pc :
        ( /\ latest(p)
          /\ req[p].ep \in AuthEndpoints \cup {"handshake"}
          /\ resolved(p)
          /\ ssoOnly(p)
          /\ ~Falsy(headerValue(p))
          /\ \/ rowsOf(account(p)) = {}           \* absent, and still absent
             \/ loc[p].id \in rowsOf(account(p)) )  \* absent, provisioned by p
        => /\ getUserByUsername(account(p)) # NoRow
           /\ identity(p) # NoRow
           /\ identity(p).id = getUserByUsername(account(p)).id

-----------------------------------------------------------------------------
(* C7: a row created by SSO-header resolution has no password credential,  *)
(* is_external = true and the directory's displayName (the account name    *)
(* when the directory gave none); a row created by registration has        *)
(* is_external = false and a password credential.                          *)
C7_ProvisionedRowShape ==
    \A p \in DOMAIN pc :
        loc[p].id \in 1..Len(users) =>
            LET row == users[loc[p].id] IN
            /\ req[p].ep \in AuthEndpoints \cup {"handshake"} =>
                 /\ row.password_hash = NULL
                 /\ row.external = 1
                 /\ row.display_name = IF loc[p].dir = "found"
                                       THEN directoryDisplayName(loc[p].sam)
                                       ELSE loc[p].sam
            /\ req[p].ep = "register" =>
                 /\ row.password_hash # NULL
                 /\ row.external = 0

\* C7 without is_external: what the code keeps
C7_AllButExternal ==
    \A p \in DOMAIN pc :
        loc[p].id \in 1..Len(users) =>
            LET row == users[loc[p].id] IN
            /\ req[p].ep \in AuthEndpoints \cup {"handshake"} =>
                 /\ row.password_hash = NULL
                 /\ row.display_name = IF loc[p].dir = "found"
                                       THEN directoryDisplayName(loc[p].sam)
                                       ELSE loc[p].sam
            /\ req[p].ep = "register" =>
                 /\ row.password_hash # NULL
                 /\ row.external = 0

-----------------------------------------------------------------------------
(* C8: the candidate account name computed from a raw header value is the  *)
(* text after its last backslash, cut at its first '@'; "CORP\jdoe",       *)
(* "jdoe@corp.example" and "jdoe" all give "jdoe"; a request and a         *)
(* handshake compute the same candidate from the same raw value.           *)

\* the text after the last backslash of v (v itself when it has none)
afterLastBackslash(v) ==
    LET at == {i \in 1..Len(v) : v[i] = "\\"} IN
    IF at = {} THEN v
    ELSE SubSeq(v, (CHOOSE i \in at : \A j \in at : j <= i) + 1, Len(v))

\* the text before the first '@' of v (v itself when it has none)
beforeFirstAt(v) ==
    LET at == {i \in 1..Len(v) : v[i] = "@"} IN
    IF at = {} THEN v
    ELSE SubSeq(v, 1, (CHOOSE i \in at : \A j \in at : i <= j) - 1)

\* p has computed its candidate account name
normalised(p) ==
    /\ req[p].ep \in {"me", "handshake"}
    /\ pc[p] \notin {"resolve", "handshake"}
    /\ ~Falsy(headerValue(p))

C8_Normalisation ==
    /\ \A p \in DOMAIN pc :
         normalised(p) =>
           /\ loc[p].sam = beforeFirstAt(afterLastBackslash(headerValue(p)))
           /\ headerValue(p) \in {CORP_jdoe, jdoe_at_corp, jdoe} => loc[p].sam = jdoe
    /\ \A p, q \in DOMAIN pc :
         normalised(p) /\ normalised(q) /\ headerValue(p) = headerValue(q)
            => loc[p].sam = loc[q].sam

\* A request and a handshake have both made "jdoe" of "CORP\jdoe"
C8_Witness ==
    \E p, q \in DOMAIN pc :
        /\ req[p].ep = "me" /\ req[q].ep = "handshake"
        /\ normalised(p) /\ normalised(q)
        /\ headerValue(p) = CORP_jdoe
        /\ headerValue(q) = CORP_jdoe
        /\ loc[p].sam = jdoe /\ loc[q].sam = jdoe

-----------------------------------------------------------------------------
(* C9: a request to PUT /tickets/:id, GET or POST /tickets/:id/events,     *)
(* GET /me or GET /users whose resolution ends with no identity is         *)
(* answered 401, and no step of such a request changes a ticket row,       *)
(* appends an event or emits a notification.                               *)
C9_NoIdentityFailsClosed ==
    /\ [](\A p \in DOMAIN pc :
            ( /\ req[p].ep \in AuthEndpoints
              /\ loc[p].outcome # "pending"
              /\ loc[p].resolved = NoRow )
            => pc[p] = "done" /\ res[p].status = 401)
    /\ [][\A p \in DOMAIN pc :
            ( /\ req'[p].ep \in AuthEndpoints
              /\ pc'[p] # pc[p]
              /\ loc'[p].resolved = NoRow )
            => UNCHANGED <<tickets, events, emitted>>]_vars

\* An update of the existing ticket with an expired token and no header was
\* answered 401 and the ticket and its log are as they were
C9_Witness ==
    \E p \in DOMAIN pc :
        /\ req[p].ep = "updateTicket" /\ req[p].id = 1 /\ "status" \in DOMAIN req[p].body
        /\ req[p].token = expiredToken(1)
        /\ pc[p] = "done"
        /\ loc[p].outcome = "returned" /\ loc[p].resolved = NoRow
        /\ res[p].status = 401
        /\ tickets = <<oldTicket>> /\ events = <<oldEvent>> /\ emitted = <<>>

-----------------------------------------------------------------------------
(* C10: POST /tickets with a non-empty title, no resolvable identity and   *)
(* no requester in the body answers 201 with a ticket whose requester is   *)
(* "Anonymous", whose status is "open" and whose updated_at is null, and   *)
(* right after it the ticket's event log is one event, of type "created"   *)
(* and actor "Anonymous".                                                  *)
C10_AnonymousCreate ==
    \A p \in DOMAIN pc :
        ( /\ latest(p)
          /\ req[p].ep = "createTicket" /\ pc[p] = "done"
          /\ ~Falsy(Get(req[p].body, "title"))
          /\ loc[p].resolved = NoRow
          /\ "requester" \notin DOMAIN req[p].body )
        => /\ res[p].status = 201
           /\ res[p].body = getTicket(loc[p].id)
           /\ res[p].body.requester = <<"Anonymous">>
           /\ res[p].body.status = <<"open">>
           /\ res[p].body.updated_at = NULL
           /\ \A log \in getTicketEvents(loc[p].id) :
                /\ Len(log) = 1
                /\ log[1].type = <<"created">>
                /\ log[1].actor = <<"Anonymous">>

-----------------------------------------------------------------------------
(* C11: when the resolution of a ticket creation yields a user, the stored *)
(* requester and the actor of the "created" event are that user's account  *)
(* name, whatever requester the client sent.                               *)

\* the creation of p has answered 201 for the ticket loc[p].id, and the event
\* it appended is the last one
created(p) ==
    /\ latest(p)
    /\ req[p].ep = "createTicket" /\ pc[p] = "done"
    /\ res[p].status = 201

C11_IdentityOverridesRequester ==
    \A p \in DOMAIN pc :
        created(p) /\ loc[p].resolved # NoRow
        => /\ getTicket(loc[p].id).requester = loc[p].resolved.username
           /\ events[Len(events)].ticket_id = loc[p].id
           /\ events[Len(events)].type = <<"created">>
           /\ events[Len(events)].actor = loc[p].resolved.username

\* C11 for the users whose account name is not the empty text
C11_NonEmptyAccount ==
    \A p \in DOMAIN pc :
        created(p) /\ loc[p].resolved # NoRow /\ ~Falsy(loc[p].resolved.username)
        => /\ getTicket(loc[p].id).requester = loc[p].resolved.username
           /\ events[Len(events)].ticket_id = loc[p].id
           /\ events[Len(events)].type = <<"created">>
           /\ events[Len(events)].actor = loc[p].resolved.username

-----------------------------------------------------------------------------
(* C12: a ticket creation whose title is missing or empty is answered 400, *)
(* and no step of it inserts a ticket, an event or a user, or emits a      *)
(* notification, whatever token and SSO header it carries.                 *)
C12_NoTitleNoEffect ==
    /\ [](\A p \in DOMAIN pc :
            ( /\ req[p].ep = "createTicket"
              /\ Falsy(Get(req[p].body, "title"))
              /\ pc[p] # "postTickets" )
            => pc[p] = "done" /\ res[p].status = 400)
    /\ [][\A p \in DOMAIN pc :
            ( /\ req'[p].ep = "createTicket"
              /\ Falsy(Get(req'[p].body, "title"))
              /\ pc'[p] # pc[p] )
            => UNCHANGED <<users, tickets, events, emitted>>]_vars

\* A creation with an empty title and the SSO header of the unknown account j
\* was answered 400; j is not in the store and nothing was inserted
C12_Witness ==
    \E p \in DOMAIN pc :
        /\ req[p].ep = "createTicket" /\ pc[p] = "done"
        /\ Get(req[p].body, "title") = <<>>
        /\ headerValue(p) = <<"C", "\\", "j">>
        /\ res[p].status = 400
        /\ rowsOf(<<"j">>) = {}
        /\ users = <<adminRow>> /\ tickets = <<>> /\ events = <<>> /\ emitted = <<>>

-----------------------------------------------------------------------------
(* C13: a ticket creation with a non-empty title is answered 201 whatever  *)
(* its token, its SSO header, the directory and the provisioning do, and   *)
(* the stored requester is the resolved account name if a user was         *)
(* resolved, else the requester the client sent, else "Anonymous".         *)

\* the creation of p, which had a title, is over
titled(p) ==
    /\ latest(p)
    /\ req[p].ep = "createTicket" /\ pc[p] = "done"
    /\ ~Falsy(Get(req[p].body, "title"))

C13_CreationNeverFails ==
    \A p \in DOMAIN pc :
        titled(p) =>
            /\ res[p].status = 201
            /\ loc[p].outcome = "returned"
            /\ getTicket(loc[p].id).requester =
                 IF loc[p].resolved # NoRow THEN loc[p].resolved.username
                 ELSE Or(Get(req[p].body, "requester"), <<"Anonymous">>)

\* What holds of C13: 201 always, and the requester with an empty account
\* name taken as no account name
C13_NeverFails ==
    \A p \in DOMAIN pc :
        titled(p) =>
            /\ res[p].status = 201
            /\ loc[p].outcome = "returned"
            /\ getTicket(loc[p].id).requester =
                 IF loc[p].resolved # NoRow /\ ~Falsy(loc[p].resolved.username)
                 THEN loc[p].resolved.username
                 ELSE Or(Get(req[p].body, "requester"), <<"Anonymous">>)

-----------------------------------------------------------------------------
(* C14: an authenticated update that applies a whitelisted field to an     *)
(* existing ticket sets the ticket's updated_at to the time of the update  *)
(* and appends exactly one event for that ticket: type "updated", actor    *)
(* the caller's account name, message holding each applied field with its  *)
(* new value.                                                              *)

\* the text part occurs in the text msg
contains(msg, part) ==
    \E i \in 1..(Len(msg) - Len(part) + 1) : SubSeq(msg, i, i + Len(part) - 1) = part

\* the whitelisted fields of a payload
applied(fields) == {whitelist[i] : i \in up(fields)}

\* p is an update of an existing ticket that applies some field
updating(p) ==
    /\ req[p].ep = "updateTicket"
    /\ req[p].id \in 1..Len(tickets)
    /\ applied(req[p].body) # {}

C14_UpdateLogsOneEvent ==
    [][\A p \in DOMAIN pc :
         (updating(p) /\ pc'[p] # pc[p]) =>
            /\ pc[p] = "updateTicket" =>
                 /\ pc'[p] = "ut_getTicket"
                 /\ tickets'[req[p].id].updated_at = datetime(now)
                 /\ tickets'[req[p].id].updated_at # NULL
                 /\ \A k \in applied(req[p].body) : tickets'[req[p].id][k] = req[p].body[k]
            /\ pc[p] = "ut_createTicketEvent" =>
                 /\ Len(events') = Len(events) + 1
                 /\ SubSeq(events', 1, Len(events)) = events
                 /\ LET e == events'[Len(events')] IN
                      /\ e.ticket_id = req[p].id
                      /\ e.type = <<"updated">>
                      /\ e.actor = loc[p].resolved.username
                      /\ \A k \in applied(req[p].body) :
                           contains(e.message, <<k, ":">> \o req[p].body[k])
                 /\ res'[p].status = 200
            /\ pc[p] # "ut_createTicketEvent" => events' = events]_vars

\* The never-updated ticket 1 was closed by user j: it has an updated_at, and
\* its log is the created event and one updated event by j holding status:closed
C14_Witness ==
    \E p \in DOMAIN pc :
        /\ req[p].ep = "updateTicket" /\ req[p].id = 1 /\ pc[p] = "done"
        /\ req[p].body = [status |-> <<"closed">>]
        /\ res[p].status = 200
        /\ loc[p].resolved # NoRow
        /\ loc[p].resolved.username = <<"j">>
        /\ Len(tickets) = 1
        /\ tickets[1] = [oldTicket EXCEPT !.status = <<"closed">>, !.updated_at = datetime(now)]
        /\ Len(events) = 2 /\ events[1] = oldEvent
        /\ events[2].type = <<"updated">> /\ events[2].actor = <<"j">>
        /\ contains(events[2].message, <<"status", ":", "closed">>)

-----------------------------------------------------------------------------
(* C15: the message of the "updated" event of an update of an existing     *)
(* ticket names every field of the payload that the whitelist applied and  *)
(* no field of the payload that the whitelist ignored.                     *)

\* the update p of an existing ticket has been answered 200; its event is the
\* last one
updated(p) ==
    /\ latest(p)
    /\ req[p].ep = "updateTicket" /\ pc[p] = "done"
    /\ res[p].status = 200
    /\ req[p].id \in 1..Len(tickets)

C15_MessageIsChangedFields ==
    \A p \in DOMAIN pc :
        updated(p) =>
            /\ events[Len(events)].type = <<"updated">>
            /\ events[Len(events)].ticket_id = req[p].id
            /\ \A k \in DOMAIN req[p].body :
                 contains(events[Len(events)].message, <<k, ":">>) <=> k \in applied(req[p].body)

\* What holds of C15: every applied field is in the message
C15_AppliedFieldsLogged ==
    \A p \in DOMAIN pc :
        updated(p) =>
            /\ events[Len(events)].type = <<"updated">>
            /\ events[Len(events)].ticket_id = req[p].id
            /\ \A k \in applied(req[p].body) :
                 contains(events[Len(events)].message, <<k, ":">> \o req[p].body[k])

-----------------------------------------------------------------------------
(* C16: in every step, a ticket row changes only while an update addressed *)
(* to it runs db.updateTicket, and only in title, description, requester,  *)
(* status, category, hold_reason, due_date, assigned_to, assigned_at and   *)
(* updated_at; no row disappears.                                          *)
Mutable ==
    {"title", "description", "requester", "status", "category", "hold_reason",
     "due_date", "assigned_to", "assigned_at", "updated_at"}

C16_UpdateFrame ==
    [][/\ Len(tickets') >= Len(tickets)
       /\ \A i \in 1..Len(tickets) :
            tickets'[i] # tickets[i] =>
               /\ \E p \in DOMAIN pc : pc[p] = "updateTicket" /\ req[p].id = i
               /\ DOMAIN tickets'[i] = DOMAIN tickets[i]
               /\ \A k \in DOMAIN tickets[i] :
                    tickets'[i][k] # tickets[i][k] => k \in Mutable]_vars

\* Ticket 1 was updated with a payload that also names computer, after ticket
\* 2 was created: title and status are the payload's, id, created_at, computer
\* and location are as before, and ticket 2 was never updated
C16_Witness ==
    \E p \in DOMAIN pc :
        /\ req[p].ep = "updateTicket" /\ req[p].id = 1 /\ pc[p] = "done"
        /\ "computer" \in DOMAIN req[p].body
        /\ res[p].status = 200
        /\ Len(tickets) = 2
        /\ tickets[1].title = <<"Toner">> /\ tickets[1].status = <<"on-hold">>
        /\ tickets[1].id = 1 /\ tickets[1].created_at = oldTicket.created_at
        /\ tickets[1].computer = NULL /\ tickets[1].location = NULL
        /\ tickets[2].updated_at = NULL /\ tickets[2].id = 2

-----------------------------------------------------------------------------
(* C17: an authenticated update of an existing ticket whose payload holds  *)
(* only fields outside the whitelist is answered 200, and no step of it    *)
(* changes a field of the ticket row other than updated_at.                *)

\* p is an update of an existing ticket with a payload of unrecognized fields
unrecognized(p) ==
    /\ req[p].ep = "updateTicket"
    /\ req[p].id \in 1..Len(tickets)
    /\ DOMAIN req[p].body # {}
    /\ applied(req[p].body) = {}

C17_UnrecognizedFieldsIgnored ==
    /\ [](\A p \in DOMAIN pc :
            (unrecognized(p) /\ pc[p] = "done" /\ loc[p].resolved # NoRow)
            => res[p].status = 200 /\ res[p].body = getTicket(req[p].id))
    /\ [][\A p \in DOMAIN pc :
            (unrecognized(p) /\ pc'[p] # pc[p])
            => \A k \in DOMAIN tickets[req[p].id] \ {"updated_at"} :
                  tickets'[req[p].id][k] = tickets[req[p].id][k]]_vars

\* The update {internal_flag: true} of ticket 1 by admin was answered 200 with
\* the ticket, which is as it was
C17_Witness ==
    \E p \in DOMAIN pc :
        /\ req[p].ep = "updateTicket" /\ req[p].id = 1 /\ pc[p] = "done"
        /\ req[p].body = [internal_flag |-> <<"true">>]
        /\ loc[p].resolved # NoRow
        /\ res[p].status = 200
        /\ tickets = <<oldTicket>>
        /\ res[p].body = oldTicket

-----------------------------------------------------------------------------
(* C18: an authenticated update of an existing ticket with an empty        *)
(* payload is answered 200, and no step of it changes the ticket rows or   *)
(* the event log.                                                          *)

\* p is an update of an existing ticket with the payload {}
emptyUpdate(p) ==
    /\ req[p].ep = "updateTicket"
    /\ req[p].id \in 1..Len(tickets)
    /\ req[p].body = NoBody

C18_EmptyUpdateIsNoOp ==
    /\ [](\A p \in DOMAIN pc :
            (emptyUpdate(p) /\ pc[p] = "done" /\ loc[p].resolved # NoRow)
            => res[p].status = 200)
    /\ [][\A p \in DOMAIN pc :
            (emptyUpdate(p) /\ pc'[p] # pc[p]) => UNCHANGED <<tickets, events>>]_vars

\* What holds of C18: the answer is 200 and the ticket rows are unchanged
C18_RowsUnchanged ==
    /\ [](\A p \in DOMAIN pc :
            (emptyUpdate(p) /\ pc[p] = "done" /\ loc[p].resolved # NoRow)
            => res[p].status = 200)
    /\ [][\A p \in DOMAIN pc :
            (emptyUpdate(p) /\ pc'[p] # pc[p]) => UNCHANGED tickets]_vars

-----------------------------------------------------------------------------
(* C19: GET /tickets/:id, and authenticated PUT /tickets/:id, GET and POST *)
(* /tickets/:id/events, addressed to an id that names no ticket, are       *)
(* answered 404.                                                           *)

\* the request p, addressed to a ticket id, has been answered, and was not
\* refused for want of an identity
addressed(p) ==
    /\ latest(p) /\ pc[p] = "done"
    /\ \/ req[p].ep = "getTicket"
       \/ req[p].ep \in {"updateTicket", "getEvents", "postEvent"} /\ loc[p].resolved # NoRow

C19_UnknownIdNotFound ==
    \A p \in DOMAIN pc :
        addressed(p) /\ req[p].id \notin 1..Len(tickets) => res[p].status = 404

\* What holds of C19: GET /tickets/:id answers 404 for an unknown id and the
\* ticket for a known one
C19_GetTicketNotFound ==
    \A p \in DOMAIN pc :
        addressed(p) /\ req[p].ep = "getTicket" =>
            IF req[p].id \in 1..Len(tickets)
            THEN res[p].status = 200 /\ res[p].body = tickets[req[p].id]
            ELSE res[p].status = 404

-----------------------------------------------------------------------------
(* C20: in every state, every ticket row has an event of type "created"    *)
(* whose created_at is at most the created_at of every other event of the  *)
(* ticket.                                                                 *)

\* the events of ticket i
eventsOf(i) == {n \in 1..Len(events) : events[n].ticket_id = i}

C20_CreatedEventFirst ==
    \A i \in 1..Len(tickets) :
        \E n \in eventsOf(i) :
            /\ events[n].type = <<"created">>
            /\ \A m \in eventsOf(i) : events[n].created_at[2] <= events[m].created_at[2]

\* What holds of C20: while no creation is between its two inserts, every
\* ticket has an event of type "created"
C20_CreatedEventAtRest ==
    (\A p \in DOMAIN pc : pc[p] \notin {"ct_getTicket", "ct_createTicketEvent"})
    => \A i \in 1..Len(tickets) : \E n \in eventsOf(i) : events[n].type = <<"created">>

-----------------------------------------------------------------------------
(* C21 *)

\* C21: the event log is append-only.  Every step of the ticket API leaves each
\* stored event as it is (same id, ticket_id, type, actor, message and created_at)
\* and at most adds events behind them, and the ids of the stored events
\* strictly increase in insertion order.
C21_AppendOnly ==
    /\ [](\A i, j \in 1..Len(events) : i < j => events[i].id < events[j].id)
    /\ [][/\ Len(events') >= Len(events)
          /\ \A i \in 1..Len(events) : events'[i] = events[i]]_vars

\* The old event, then the event of an update and a note, all still stored
C21_Witness ==
    /\ Len(events) = 3
    /\ events[1] = oldEvent
    /\ events[2].type = <<"updated">>
    /\ events[3].type = <<"note">>
    /\ \E p \in DOMAIN pc : pc[p] = "done" /\ req[p] # NoReq /\ req[p].ep = "postEvent"

-----------------------------------------------------------------------------
(* C22 *)

\* A finished event read that was answered with a list that is not empty
readEvents(p) ==
    /\ latest(p)
    /\ req[p].ep = "getEvents"
    /\ res[p].status = 200
    /\ res[p].body # <<>>

\* C22: the event read of a ticket starts with the event inserted last for that
\* ticket, also when an earlier event of the ticket has the same created_at.
C22_LastInsertedFirst ==
    \A p \in DOMAIN pc :
        readEvents(p) =>
            \A i \in 1..Len(events) :
                events[i].ticket_id = req[p].id => events[i].id <= res[p].body[1].id

\* What holds: the list holds the ticket's events, each once, and created_at
\* never increases along it
C22_NewestFirstByCreatedAt ==
    \A p \in DOMAIN pc :
        readEvents(p) =>
            /\ {res[p].body[k].id : k \in 1..Len(res[p].body)} = eventsOf(req[p].id)
            /\ Len(res[p].body) = Cardinality(eventsOf(req[p].id))
            /\ \A a, b \in 1..Len(res[p].body) :
                 a < b => res[p].body[a].created_at[2] >= res[p].body[b].created_at[2]

-----------------------------------------------------------------------------
(* C23 *)

\* C23: an event append by an authenticated caller inserts exactly one event, of
\* the type given in the body or "note" when the body gives none, with the
\* caller's resolved account name as actor whatever the body holds; no step of
\* the request changes a ticket row or emits a notification.
C23_EventAppend ==
    [][\A p \in DOMAIN pc :
         (req[p] # NoReq /\ req[p].ep = "postEvent" /\ pc'[p] # pc[p]) =>
            /\ tickets' = tickets
            /\ emitted' = emitted
            /\ pc[p] = "postEvent" =>
                 /\ Len(events') = Len(events) + 1
                 /\ SubSeq(events', 1, Len(events)) = events
                 /\ LET e == events'[Len(events')] IN
                      /\ e.ticket_id = req[p].id
                      /\ e.type = IF "type" \in DOMAIN req[p].body
                                  THEN req[p].body.type ELSE <<"note">>
                      /\ e.actor = loc[p].resolved.username
                      /\ e.actor = IF jwtVerifies(req[p].token) THEN <<"admin">>
                                   ELSE account(p)
                 /\ res'[p].status = 201
            /\ pc[p] # "postEvent" => events' = events]_vars

\* User j appended an event to ticket 1 with a body that names another actor
\* and a type: the event carries that type and j, and the ticket is as it was
C23_Witness ==
    \E p \in DOMAIN pc :
        /\ req[p].ep = "postEvent" /\ req[p].id = 1 /\ pc[p] = "done"
        /\ "actor" \in DOMAIN req[p].body
        /\ res[p].status = 201
        /\ tickets = <<oldTicket>>
        /\ emitted = <<>>
        /\ Len(events) = 2 /\ events[1] = oldEvent
        /\ events[2].type = <<"created">> /\ events[2].actor = <<"j">>

-----------------------------------------------------------------------------
(* C24 *)

\* A direct call of lookupUserBySamAccountName or searchUsers that has returned
called(p) == pc[p] = "done" /\ req[p].ep \in {"lookup", "searchUsers"}

\* C24: configured() is true only when the service URL, the bind identity, the
\* bind secret and the search base are all set; and while it is false, no
\* directory client exists, nothing is sent to a directory, and a call of
\* lookupUserBySamAccountName has returned null, one of searchUsers [].
C24_UnconfiguredDirectory ==
    /\ configured => \A n \in EnvNames : env[n] \notin {undefined, <<>>}
    /\ ~configured =>
         \A p \in DOMAIN pc :
            /\ loc[p].client = NoClient
            /\ pc[p] \notin {"ad_bind", "ad_search"}
            /\ called(p) => /\ res[p].body = IF req[p].ep = "lookup" THEN NoRow ELSE array(<<>>)
                            /\ loc[p].dir = "unconfigured"

\* With everything set but the bind secret, which is empty, searchUsers was
\* called and returned []
C24_Witness ==
    /\ env = [FullEnv EXCEPT !.AD_BIND_PW = <<>>]
    /\ \E p \in DOMAIN pc :
         called(p) /\ req[p].ep = "searchUsers" /\ res[p].body = array(<<>>)

-----------------------------------------------------------------------------
(* C25 *)

\* The directory operation of p has ended on a failure (a bind error, a search
\* error, an error while the result streamed) or with no match
failedOrEmpty(p) == loc[p].dir \in {"failed", "absent"}

\* C25: when a directory operation fails or matches nothing,
\* lookupUserBySamAccountName returns null and searchUsers returns [], and the
\* request or handshake that ran it ends as if the directory had no entry: the
\* resolver and the handshake go on with no directory information and end with
\* the identity of the header, GET /api/ad/users answers 200 with [].
C25_DirectoryFailureIsAbsent ==
    \A p \in DOMAIN pc :
        failedOrEmpty(p) =>
            /\ loc[p].adInfo = NoRow
            /\ loc[p].outcome # "threw"
            /\ pc[p] = "done" =>
                 /\ req[p].ep = "lookup" => res[p].body = NoRow
                 /\ req[p].ep = "searchUsers" => res[p].body = array(<<>>)
                 /\ req[p].ep = "adUsers" => res[p].status = 200 /\ res[p].body = array(<<>>)
                 /\ req[p].ep = "me" =>
                      /\ res[p].status = 200
                      /\ res[p].body.username = account(p)
                 /\ req[p].ep = "handshake" =>
                      /\ res[p].user # NoRow
                      /\ res[p].user.username = samOfHandshake(headerValue(p))

\* The bind of the lookup for the header's account failed; GET /api/me was
\* answered 200 with the row provisioned under the raw account name
C25_Witness ==
    \E p \in DOMAIN pc :
        /\ pc[p] = "done" /\ req[p].ep = "me"
        /\ loc[p].dir = "failed"
        /\ loc[p].client.sent = <<"bind", "unbind">>
        /\ res[p].status = 200
        /\ res[p].body.username = <<"j">> /\ res[p].body.display_name = <<"j">>
        /\ Len(users) = 2

-----------------------------------------------------------------------------
(* C26 *)

\* The directory operation of p has returned
returned(p) == loc[p].dir # "none"

\* C26: when lookupUserBySamAccountName or searchUsers has returned, the
\* connection it opened, if any, is released: unbind was the last operation on
\* it, after matches, after no match, after a bind failure and after a search
\* failure; a connection is open only while the operation awaits the directory.
C26_ConnectionReleased ==
    \A p \in DOMAIN pc :
        /\ returned(p) =>
             /\ loc[p].client.state \in {"none", "closed"}
             /\ loc[p].client.state = "none" <=> ~configured
             /\ loc[p].client.state = "closed" =>
                  loc[p].client.sent[Len(loc[p].client.sent)] = "unbind"
        /\ loc[p].client.state = "open" <=> pc[p] \in {"ad_bind", "ad_search"}

\* searchUsers returned [] after a search that failed on a bound connection,
\* which was then released
C26_Witness ==
    \E p \in DOMAIN pc :
        /\ called(p) /\ req[p].ep = "searchUsers"
        /\ loc[p].dir = "failed"
        /\ loc[p].client = [state |-> "closed", sent |-> <<"bind", "search", "unbind">>]

-----------------------------------------------------------------------------
(* C27 *)

\* The request or handshake p awaits an answer of the directory
awaitsDirectory(p) == pc[p] \in {"ad_bind", "ad_search"}

\* C27: a request or handshake that awaits the directory eventually completes,
\* also when the directory never answers the bind or the search.
C27_StalledDirectoryCutOff ==
    \A p \in 1..NumRequests :
        (awaitsDirectory(p) /\ req[p].ep \in {"me", "handshake"}) ~> (pc[p] = "done")

\* What holds: as long as the directory has not answered, the request stays
\* where it is with its connection open; no step but an answer of the directory
\* moves it
C27_OnlyTheDirectoryEndsTheWait ==
    [][\A p \in 1..NumRequests :
         (awaitsDirectory(p) /\ pc'[p] # pc[p]) => (bindReplies(p) \/ searchReplies(p))]_vars

-----------------------------------------------------------------------------
(* C28 *)

\* C28: the identity of a realtime connection (socket.user) is written by the
\* handshake, in the step that ends it, and by nothing else: no chat message,
\* no HTTP request and no change of the user store changes it while the
\* connection lasts; it goes with the connection when the client disconnects.
C28_IdentityFixedAtHandshake ==
    [][\A p \in DOMAIN pc :
         res'[p].user # res[p].user =>
            \/ /\ req[p].ep = "handshake"
               /\ pc[p] \notin {"done", "connected"}
               /\ pc'[p] = "done"
            \/ pc[p] = "connected" /\ pc'[p] = "closed"]_vars

\* A connection whose handshake carried the header j while no user j existed
\* and no directory was configured is anonymous; since then GET /api/me has
\* provisioned user j and the connection has sent a chat message: it is still
\* anonymous
C28_Witness ==
    \E p \in DOMAIN pc :
        /\ pc[p] = "connected"
        /\ scan(headerNames, req[p].headers) = <<"j">>
        /\ res[p].user = NoRow
        /\ rowsOf(<<"j">>) # {}
        /\ loc[p].message # NoRow
        /\ loc[p].message.user = <<"Anonymous">>

-----------------------------------------------------------------------------
(* C29 *)

\* The connection p has sent a chat message; message is the one sent last
chatted(p) == pc[p] = "connected" /\ loc[p].message # NoRow

\* The broadcast of the message p sent last reached p
delivered(p) ==
    \E i \in 1..Len(emitted) :
        /\ emitted[i].event = "chat message"
        /\ emitted[i].payload = loc[p].message
        /\ p \in emitted[i].to

\* C29: the message broadcast for a chat message reaches the sender, and its
\* user field is the account name of the sender's connection when the
\* connection has an identity, whatever name the client claimed; the claimed
\* name, or "Anonymous", is passed only for a connection without identity.
C29_SenderNameOverridesClaim ==
    \A p \in DOMAIN pc :
        chatted(p) =>
            /\ delivered(p)
            /\ loc[p].message.user =
                 IF res[p].user # NoRow THEN res[p].user.username
                 ELSE Or(Get(loc[p].msg, "user"), <<"Anonymous">>)

\* What holds: the account name overrides the claimed name when it is not empty
C29_NonEmptyNameOverridesClaim ==
    \A p \in DOMAIN pc :
        chatted(p) =>
            /\ delivered(p)
            /\ loc[p].message.user =
                 IF res[p].user # NoRow /\ res[p].user.username # <<>>
                 THEN res[p].user.username
                 ELSE Or(Get(loc[p].msg, "user"), <<"Anonymous">>)

\* What holds: each broadcast goes to all the connections there are at that
\* moment
C29_BroadcastToAll ==
    [][\A p \in DOMAIN pc :
         (pc[p] = "connected" /\ Len(emitted') > Len(emitted)) =>
            p \in emitted'[Len(emitted')].to]_vars

-----------------------------------------------------------------------------
(* C30 *)

\* The object carries a password credential
exposes(obj) == DOMAIN obj \cap {"password_hash", "password"} # {}

\* C30: no response body and no realtime payload carries a password
\* credential: not the answers of register, login, me and users, of the ticket
\* and event endpoints, not socket.user and not what io.emit broadcasts, for
\* users resolved by token, by SSO header for an existing row and freshly
\* provisioned.
C30_NoPasswordInResponses ==
    /\ \A p \in DOMAIN pc :
         /\ ~exposes(res[p].user)
         /\ IF req[p].ep = "users" /\ res[p].status = 200
            THEN \A u \in res[p].body : ~exposes(u)
            ELSE IF req[p].ep = "getEvents" /\ res[p].status = 200
            THEN \A k \in 1..Len(res[p].body) : ~exposes(res[p].body[k])
            ELSE IF req[p].ep = "login" /\ res[p].status = 200
            THEN ~exposes(res[p].body) /\ ~exposes(res[p].body.user)
            ELSE ~exposes(res[p].body)
    /\ \A i \in 1..Len(emitted) : ~exposes(emitted[i].payload)

\* User j registered with a password; GET /api/me with the SSO header j was
\* resolved to that row, credential included, and answered with the row
\* without it
C30_Witness ==
    \E p \in DOMAIN pc :
        /\ pc[p] = "done" /\ req[p].ep = "me" /\ res[p].status = 200
        /\ exposes(loc[p].resolved)
        /\ loc[p].resolved.password_hash = bcryptHash(<<"pw">>)
        /\ res[p].body.username = <<"j">>
        /\ DOMAIN res[p].body = {"id", "username", "display_name", "external", "created_at"}

-----------------------------------------------------------------------------
(* C31 *)

\* p is an answered registration that named an account and a password
registered(p) ==
    /\ pc[p] = "done"
    /\ req[p].ep = "register"
    /\ ~Falsy(Get(req[p].body, "username"))
    /\ ~Falsy(Get(req[p].body, "password"))

\* C31: a registration answers 201 with the new row, or 409 when the name is
\* taken -- also when it was taken, by another registration or by SSO
\* provisioning, between this request's existence check and its insert; the
\* name has one row, and of the registrations of one name at most one
\* answers 201.
C31_TakenNameIs409 ==
    /\ \A p \in DOMAIN pc :
         registered(p) =>
            /\ Cardinality(rowsOf(req[p].body.username)) = 1
            /\ \/ res[p].status = 201 /\ res[p].body = getUserById(loc[p].id)
                    /\ res[p].body.username = req[p].body.username
               \/ res[p].status = 409
    /\ \A p, q \in DOMAIN pc :
         ( /\ p # q /\ registered(p) /\ registered(q)
           /\ req[p].body.username = req[q].body.username )
         => ~(res[p].status = 201 /\ res[q].status = 201)

\* What holds: the store refuses the second row, and the registration that
\* lost the race between its check and its insert answers 500
C31_OneRowOneWinner ==
    /\ \A p \in DOMAIN pc :
         registered(p) =>
            /\ Cardinality(rowsOf(req[p].body.username)) = 1
            /\ \/ res[p].status = 201 /\ res[p].body = getUserById(loc[p].id)
                    /\ res[p].body.username = req[p].body.username
               \/ res[p].status \in {409, 500} /\ loc[p].id = 0
    /\ \A p, q \in DOMAIN pc :
         ( /\ p # q /\ registered(p) /\ registered(q)
           /\ req[p].body.username = req[q].body.username )
         => ~(res[p].status = 201 /\ res[q].status = 201)

-----------------------------------------------------------------------------
(* C32 *)

\* p is an answered login that named an account and a password
loggedIn(p) ==
    /\ pc[p] = "done"
    /\ req[p].ep = "login"
    /\ ~Falsy(Get(req[p].body, "username"))
    /\ ~Falsy(Get(req[p].body, "password"))

\* The account p names exists and the password p supplies matches its credential
matches(p) ==
    LET user == getUserByUsername(req[p].body.username) IN
    user # NoRow /\ user.password_hash = bcryptHash(req[p].body.password)

\* The answer carries a token
issued(p) == "token" \in DOMAIN res[p].body

\* C32: a login issues a token only when the account exists and the password
\* matches its credential, and the token verifies with the account's id as
\* subject; for an unknown account, a wrong password and an account without a
\* password credential the answer is 401, without a token.
C32_LoginNeedsMatchingPassword ==
    \A p \in DOMAIN pc :
        loggedIn(p) =>
            IF matches(p)
            THEN issued(p) =>
                    /\ jwtVerifies(res[p].body.token)
                    /\ res[p].body.token.id = getUserByUsername(req[p].body.username).id
            ELSE res[p].status = 401 /\ ~issued(p)

\* What holds: without a matching password no token is issued; the answer is
\* 401, or 500 for an account without a password credential
C32_NoTokenWithoutMatch ==
    \A p \in DOMAIN pc :
        loggedIn(p) =>
            IF matches(p)
            THEN /\ res[p].status = 200 /\ issued(p)
                 /\ jwtVerifies(res[p].body.token)
                 /\ res[p].body.token.id = getUserByUsername(req[p].body.username).id
            ELSE /\ ~issued(p)
                 /\ res[p].status =
                      IF loc[p].user # NoRow /\ loc[p].user.password_hash = NULL
                      THEN 500 ELSE 401

-----------------------------------------------------------------------------
(* C33 *)

\* The resolution of p has sent a bind or a search to the directory
queried(p) == loc[p].client.sent # <<>>

\* The account name of p had no row when p's resolution began: it has none
\* now, or the one p itself created
absentFromStore(p) ==
    LET user == getUserByUsername(loc[p].sam) IN
    user = NoRow \/ user.id = loc[p].id

\* C33: a request or handshake resolved by its SSO header queries the
\* directory only when the directory is configured and the account name has no
\* row in the store; a header that names an existing user causes no bind and
\* no search.
C33_StoreBeforeDirectory ==
    \A p \in DOMAIN pc :
        (req[p].ep \in {"me", "handshake"} /\ queried(p)) =>
            configured /\ absentFromStore(p)

\* What holds: the handshake asks the store first; the resolver of the HTTP
\* requests asks the directory whenever it is configured
C33_HandshakeStoreFirst ==
    \A p \in DOMAIN pc :
        /\ (req[p].ep \in {"me", "handshake"} /\ queried(p)) => configured
        /\ (req[p].ep = "handshake" /\ queried(p)) => absentFromStore(p)
        /\ (req[p].ep = "me" /\ configured /\ pc[p] = "done" /\ loc[p].sam # undefined)
              => queried(p)

-----------------------------------------------------------------------------
(* C34 *)

\* p awaits the user of a token that verified, and the store has that user
tokenSucceeds(p) ==
    /\ pc[p] \in {"r_getUserById", "h_getUserById"}
    /\ getUserById(req[p].token.id) # NoRow

\* C34: when the token of a request or handshake verifies and its subject is
\* in the store, the resolution ends there with that user: the header scan
\* does not run (no account name is taken from a header), the directory is
\* not called and no user row is created, whatever SSO header the request
\* carries; and nothing the request does afterwards creates a row.
C34_TokenShortCircuits ==
    [][\A p \in DOMAIN pc :
         /\ (tokenSucceeds(p) /\ pc'[p] # pc[p]) =>
               /\ users' = users
               /\ loc'[p].sam = undefined
               /\ loc'[p].dir = "none"
               /\ loc'[p].client = NoClient
               /\ IF req[p].ep = "handshake"
                  THEN pc'[p] = "done" /\ res'[p].user.id = req[p].token.id
                  ELSE /\ loc'[p].outcome = "returned"
                       /\ loc'[p].resolved = getUserById(req[p].token.id)
         /\ (resolves(p) /\ resolved(p) /\ loc[p].sam = undefined /\ pc'[p] # pc[p]) =>
               users' = users]_vars

\* GET /api/me with a token of the admin and the header x-remote-user: k was
\* answered with the admin; there is no user k
C34_Witness ==
    \E p \in DOMAIN pc :
        /\ pc[p] = "done" /\ req[p].ep = "me" /\ res[p].status = 200
        /\ jwtVerifies(req[p].token)
        /\ scan(hdrs, req[p].headers) = <<"k">>
        /\ res[p].body.username = <<"admin">>
        /\ loc[p].sam = undefined
        /\ getUserByUsername(<<"k">>) = NoRow

-----------------------------------------------------------------------------
(* C35 *)

\* The value of the first forwarded-identity header that is there and not
\* empty, in the order x-remote-user, remote-user, x-forwarded-user, remote_user
candidate(h) ==
    IF ~Falsy(Get(h, "x-remote-user")) THEN h["x-remote-user"]
    ELSE IF ~Falsy(Get(h, "remote-user")) THEN h["remote-user"]
    ELSE IF ~Falsy(Get(h, "x-forwarded-user")) THEN h["x-forwarded-user"]
    ELSE IF ~Falsy(Get(h, "remote_user")) THEN h["remote_user"]
    ELSE undefined

\* C35: the account name of a header resolution is that of the first header
\* that is there and not empty; the resolution ends with the user of that name
\* or with no user -- also when its directory lookup or its provisioning fails
\* -- and no row is ever created for the name of a later header.
C35_FirstPresentHeader ==
    /\ \A p \in DOMAIN pc :
         req[p].ep \in {"me", "handshake"} =>
            LET v == candidate(req[p].headers) IN
            /\ loc[p].sam \in {undefined, samOfRequest(v)}
            /\ resolved(p) =>
                  /\ loc[p].sam = samOfRequest(v)
                  /\ \/ identity(p) = NoRow
                     \/ ~Falsy(v) /\ identity(p).username = samOfRequest(v)
    /\ \A i \in 1..Len(users) :
         \E q \in DOMAIN pc :
            /\ req[q] # NoReq
            /\ ~Falsy(candidate(req[q].headers))
            /\ users[i].username = samOfRequest(candidate(req[q].headers))

\* A request with x-remote-user: a and remote-user: b whose directory lookup
\* failed and whose insert of a lost against a concurrent one: it was refused
\* with 401, and there is no user b
C35_Witness ==
    \E p \in DOMAIN pc :
        /\ pc[p] = "done" /\ req[p].ep = "me" /\ res[p].status = 401
        /\ DOMAIN req[p].headers = {"x-remote-user", "remote-user"}
        /\ req[p].headers["remote-user"] = <<"b">>
        /\ loc[p].sam = <<"a">>
        /\ loc[p].dir = "failed"
        /\ loc[p].outcome = "returned" /\ loc[p].resolved = NoRow
        /\ getUserByUsername(<<"a">>) # NoRow
        /\ getUserByUsername(<<"b">>) = NoRow

-----------------------------------------------------------------------------
(* C36 *)

\* The ticket p's operation is about, and the type of its audit event
ticketOf(p) == IF req[p].ep = "createTicket" THEN loc[p].id ELSE req[p].id
auditType(p) == IF req[p].ep = "createTicket" THEN <<"created">> ELSE <<"updated">>

\* p makes the step that emits its notification
notifies(p) ==
    /\ pc[p] \in {"ct_createTicketEvent", "ut_createTicketEvent"}
    /\ pc'[p] = "done"
    /\ Len(emitted') = Len(emitted) + 1

\* C36: when a creation or an update emits ticket.created or ticket.updated,
\* the ticket row is in the store and the audit event of that operation
\* ("created" or "updated", for that ticket) has been added to the event log --
\* also when the insert of the event is refused.
C36_EventBeforeNotification ==
    [][\A p \in DOMAIN pc :
         notifies(p) =>
            /\ ticketOf(p) \in 1..Len(tickets')
            /\ \E k \in (Len(events) + 1)..Len(events') :
                 /\ events'[k].ticket_id = ticketOf(p)
                 /\ events'[k].type = auditType(p)]_vars

\* What holds: the event is there when the notification is emitted unless its
\* insert was refused; then the notification is emitted all the same
C36_EventBeforeNotificationUnlessRefused ==
    [][\A p \in DOMAIN pc :
         notifies(p) =>
            IF ticketOf(p) = NaN
            THEN events' = events /\ emitted'[Len(emitted')].payload = NoRow
            ELSE /\ ticketOf(p) \in 1..Len(tickets')
                 /\ \E k \in (Len(events) + 1)..Len(events') :
                      /\ events'[k].ticket_id = ticketOf(p)
                      /\ events'[k].type = auditType(p)]_vars

-----------------------------------------------------------------------------
(* C37 *)

\* No request is under way
atRest == \A p \in DOMAIN pc : pc[p] \in {"idle", "done"}

\* The ticket.updated notifications that carry ticket i, by their position
updatesOf(i) ==
    {k \in 1..Len(emitted) :
        /\ emitted[k].event = "ticket.updated"
        /\ emitted[k].payload # NoRow
        /\ emitted[k].payload.id = i}

\* C37: once all updates of a ticket have completed, in whatever order their
\* steps ran, the payload of the last ticket.updated emitted for the ticket is
\* the row now stored.
C37_LastNotificationIsCurrent ==
    atRest =>
        \A i \in 1..Len(tickets) :
            updatesOf(i) # {} =>
                LET last == CHOOSE k \in updatesOf(i) : \A j \in updatesOf(i) : j <= k
                IN  emitted[last].payload = tickets[i]

\* What holds: some notification of the ticket carries the row now stored,
\* the one of the update that wrote last; it need not be the last emitted
C37_SomeNotificationIsCurrent ==
    atRest =>
        \A i \in 1..Len(tickets) :
            updatesOf(i) # {} => \E k \in updatesOf(i) : emitted[k].payload = tickets[i]

-----------------------------------------------------------------------------
(* C38 *)

\* C38: every stored event refers to a stored ticket, whatever creations,
\* updates and event appends have been served, those addressed to an id that
\* names no ticket included.
C38_EventsReferToTickets ==
    \A n \in 1..Len(events) : events[n].ticket_id \in 1..Len(tickets)

-----------------------------------------------------------------------------
(* C39 *)

\* C39: events of type "created" are written by ticket creation only: in
\* every state each ticket has at most one of them, whatever updates and event
\* appends, with whatever type the caller supplies, have been served.
C39_AtMostOneCreatedEvent ==
    \A i \in 1..Len(tickets) :
        Cardinality({n \in eventsOf(i) : events[n].type = <<"created">>}) <= 1

-----------------------------------------------------------------------------
(* C40 *)

\* p is a creation that has inserted its ticket row (row loc[p].id)
inserted(p) ==
    /\ req[p].ep = "createTicket"
    /\ \/ pc[p] \in {"ct_getTicket", "ct_createTicketEvent"}
       \/ pc[p] = "done" /\ res[p].status = 201

\* C40: the row of a created ticket holds, as computer, the value of the
\* first of x-computer-name, x-client-host, x-forwarded-for-host, x-device the
\* request carries, and as location that of the first of x-location, x-site,
\* x-building; each is null only when the request carries none of its headers.
C40_DeviceHeadersStored ==
    \A p \in DOMAIN pc :
        inserted(p) =>
            /\ tickets[loc[p].id].computer = computerHeader(req[p].headers)
            /\ tickets[loc[p].id].location = locationHeader(req[p].headers)

\* What holds: computer and location of every ticket are null, whatever the
\* request carried
C40_DeviceColumnsNull ==
    \A i \in 1..Len(tickets) : tickets[i].computer = NULL /\ tickets[i].location = NULL

====
